---- MODULE Spec2Model ----
(***************************************************************************)
(* Skim data management of activitysim.core.los: the skim catalog built by *)
(* load_skim_info, the loader / cache primitives (load_skims,               *)
(* read_skim_cache, write_skim_cache, read_skims_from_omx), create_skim_dict*)
(* and the settings validation of Network_LOS.read_los_settings.           *)
(*                                                                         *)
(* Strings that the code parses (matrix names, period labels) are sequences*)
(* of one-character strings, so that str.partition('__') is computed.      *)
(* Python dicts are sequences of [key, value] entries in insertion order.  *)
(* Python None is the record NoneVal; a raised exception is recorded in    *)
(* the variable err and leaves the pc at "failed".                         *)
(***************************************************************************)
EXTENDS Integers, Sequences, FiniteSets, TLC

VARIABLES
    omx_files,          \* the source files named by omx_file_names, in order
    skim_time_periods,  \* config.setting('skim_time_periods')
    settings,           \* read_skim_cache / write_skim_cache / network_los settings
    skim_info,          \* the catalog returned by load_skim_info, or NoneVal
    skim_buffer,        \* the flat buffer of the skim_tag, or NoneVal
    other_buffer,       \* a second buffer of the same shape and tag
    cache_file,         \* cached_<skim_tag>.mmap: NoneVal (missing) or its elements
    skim_dict,          \* what create_skim_dict returned, or NoneVal
    los,                \* the fields of the Network_LOS object
    io_log,             \* the file accesses made so far, in order
    table_files,        \* the csv files named by the tables setting
    result,             \* what the last query returned, or NoneVal
    pipeline,           \* the pipeline module's state and its checkpoint store
    workers,            \* the skim dictionaries of each worker process
    pc,                 \* position of the process
    err                 \* the exception that ended the last operation, or "none"

vars == <<omx_files, skim_time_periods, settings, skim_info, skim_buffer,
          other_buffer, cache_file, skim_dict, los, io_log, table_files, result,
          pipeline, workers, pc, err>>

----
\* Bounds of the model

MaxFiles == 2
MaxMatrices == 2
MaxMappings == 2
MaxLog == 5
MaxCacheLen == 6
MaxZoneSystem == 4
MaxTableFiles == 2
MaxRows == 2
MaxQuery == 2
MaxSeed == 1
MaxWorkers == 2
TableModulus == 5

----
\* Constants of los.py

ONE_ZONE == 1
TWO_ZONE == 2
THREE_ZONE == 3

REQUIRED_TWO_ZONE_TABLES == {"maz_to_maz", "maz_to_taz"}

----
\* Python values

NoneVal == [kind |-> "None"]

IsNone(v) == v.kind = "None"

SeqToSet(s) == {s[i] : i \in 1..Len(s)}

\* all sequences without repeats, of length at most n, over the set S
RECURSIVE DistinctSeqs(_, _)
DistinctSeqs(S, n) ==
    IF n = 0 THEN {<< >>}
    ELSE LET shorter == DistinctSeqs(S, n - 1)
             longest == {t \in shorter : Len(t) = n - 1}
         IN  shorter \cup UNION {{Append(t, x) : x \in S \ SeqToSet(t)} : t \in longest}

\* all sequences of length at most n over the set S
RECURSIVE SeqsUpTo(_, _)
SeqsUpTo(S, n) ==
    IF n = 0 THEN {<< >>}
    ELSE LET shorter == SeqsUpTo(S, n - 1)
         IN  shorter \cup {Append(s, x) : s \in {t \in shorter : Len(t) = n - 1}, x \in S}

\* ---- dict: d[k] = v, k in d, d.get(k), len(d), d.keys()

DictHas(d, k) == \E i \in 1..Len(d) : d[i].key = k

DictIndex(d, k) == CHOOSE i \in 1..Len(d) : d[i].key = k

DictGet(d, k) == d[DictIndex(d, k)].value

DictSet(d, k, v) ==
    IF DictHas(d, k)
    THEN [d EXCEPT ![DictIndex(d, k)] = [key |-> k, value |-> v]]
    ELSE Append(d, [key |-> k, value |-> v])

DictKeys(d) == [i \in 1..Len(d) |-> d[i].key]

DictValues(d) == [i \in 1..Len(d) |-> d[i].value]

----
\* str.partition('__'): (head, sep, tail) around the first occurrence of the
\* separator, (name, '', '') when there is none

SepIndex(name) ==
    LET hits == {i \in 1..(Len(name) - 1) : name[i] = "_" /\ name[i + 1] = "_"}
    IN  IF hits = {} THEN 0 ELSE CHOOSE i \in hits : \A j \in hits : i <= j

Partition(name) ==
    LET i == SepIndex(name)
    IN  IF i = 0
        THEN [key1 |-> name, sep |-> << >>, key2 |-> << >>]
        ELSE [key1 |-> SubSeq(name, 1, i - 1),
              sep  |-> <<"_", "_">>,
              key2 |-> SubSeq(name, i + 2, Len(name))]

\* skim_key = (key1, key2) if sep else key1
ScalarKey(key1) == [isTuple |-> FALSE, key1 |-> key1, key2 |-> << >>]

TupleKey(key1, key2) == [isTuple |-> TRUE, key1 |-> key1, key2 |-> key2]

SkimKeyOf(name) ==
    LET p == Partition(name)
    IN  IF p.sep # << >> THEN TupleKey(p.key1, p.key2) ELSE ScalarKey(p.key1)

\* key1, key2 = skim_key if isinstance(skim_key, tuple) else key1 = key2 = skim_key
Key1Of(skim_key) == skim_key.key1

Key2Of(skim_key) == IF skim_key.isTuple THEN skim_key.key2 ELSE skim_key.key1

----
\* load_skim_info, first loop: read shape, matrix names and mappings of every
\* source file

\* bool(x) of a list
Truthy(list) == (~IsNone(list)) /\ list.items # << >>

PyList(items) == [kind |-> "list", items |-> items]

PyShape(dims) == [kind |-> "shape", dims |-> dims]

\* tags_to_load = skim_time_periods and skim_time_periods['labels']
TagsToLoad(time_periods) ==
    IF IsNone(time_periods) THEN NoneVal ELSE PyList(time_periods.labels)

\* only the number of columns compared
ShapeMatches_ColsOnly(omx_shape, file_shape) == omx_shape.dims[2] = file_shape[2]

\* omx_shape == tuple(int(i) for i in omx_file.shape())
ShapeMatches(omx_shape, file_shape) == omx_shape.dims = file_shape

\* the duplicate check left out
NotInManifest_Unchecked(omx_manifest, skim_name) == TRUE

\* skim_name not in omx_manifest
NotInManifest(omx_manifest, skim_name) == ~DictHas(omx_manifest, skim_name)

\* len(offset_map) == omx_shape[0]
OffsetMapCoversRows(entries, omx_shape) == Len(entries) = omx_shape.dims[1]

\* any later mapping accepted
SameMapping_Any(offset_map, entries) == TRUE

\* offset_map == omx_file.mapentries(m)
SameMapping(offset_map, entries) == offset_map.items = entries

ScanStart ==
    [err |-> "none", omx_shape |-> NoneVal, offset_map |-> NoneVal,
     offset_map_name |-> NoneVal, omx_manifest |-> << >>]

\* if omx_shape is None: omx_shape = ... else: assert omx_shape == ...
ScanShape(acc, file) ==
    IF IsNone(acc.omx_shape)
    THEN [acc EXCEPT !.omx_shape = PyShape(file.shape)]
    ELSE IF ShapeMatches(acc.omx_shape, file.shape)
         THEN acc
         ELSE [acc EXCEPT !.err = "AssertionError: omx_shape"]

\* for skim_name in omx_file.listMatrices(): assert ...; omx_manifest[skim_name] = omx_file_name
RECURSIVE ScanMatrices(_, _, _)
ScanMatrices(acc, file, k) ==
    IF acc.err # "none" \/ k > Len(file.matrices) THEN acc
    ELSE IF NotInManifest(acc.omx_manifest, file.matrices[k])
         THEN ScanMatrices(
                [acc EXCEPT !.omx_manifest = DictSet(@, file.matrices[k], file.file_name)],
                file, k + 1)
         ELSE [acc EXCEPT !.err = "AssertionError: duplicate skim"]

\* for m in omx_file.listMappings(): ...
RECURSIVE ScanMappings(_, _, _)
ScanMappings(acc, file, k) ==
    IF acc.err # "none" \/ k > Len(file.mappings) THEN acc
    ELSE LET m == file.mappings[k]
         IN  IF IsNone(acc.offset_map)
             THEN IF OffsetMapCoversRows(m.entries, acc.omx_shape)
                  THEN ScanMappings([acc EXCEPT !.offset_map_name = [kind |-> "str", name |-> m.name],
                                                !.offset_map = PyList(m.entries)],
                                    file, k + 1)
                  ELSE [acc EXCEPT !.offset_map_name = [kind |-> "str", name |-> m.name],
                                   !.offset_map = PyList(m.entries),
                                   !.err = "AssertionError: len(offset_map)"]
             ELSE IF SameMapping(acc.offset_map, m.entries)
                  THEN ScanMappings(acc, file, k + 1)
                  ELSE [acc EXCEPT !.err = "RuntimeError: Multiple different mappings"]

\* for omx_file_name in omx_file_names: ...
RECURSIVE ScanFiles(_, _, _)
ScanFiles(acc, files, i) ==
    IF acc.err # "none" \/ i > Len(files) THEN acc
    ELSE ScanFiles(ScanMappings(ScanMatrices(ScanShape(acc, files[i]), files[i], 1),
                                files[i], 1),
                   files, i + 1)

----
\* load_skim_info, second part: the layout of the retained keys

\* the filter applied to names without separator too
IgnoreSkim_AnyName(tags_to_load, p) ==
    /\ Truthy(tags_to_load)
    /\ p.key2 \notin SeqToSet(tags_to_load.items)

\* if tags_to_load and sep and key2 not in tags_to_load: continue
IgnoreSkim(tags_to_load, p) ==
    /\ Truthy(tags_to_load)
    /\ p.sep # << >>
    /\ p.key2 \notin SeqToSet(tags_to_load.items)

\* omx_keys: skim key -> matrix name, over omx_manifest.keys()
RECURSIVE BuildOmxKeys(_, _, _, _)
BuildOmxKeys(omx_keys, names, tags_to_load, k) ==
    IF k > Len(names) THEN omx_keys
    ELSE IF IgnoreSkim(tags_to_load, Partition(names[k]))
         THEN BuildOmxKeys(omx_keys, names, tags_to_load, k + 1)
         ELSE BuildOmxKeys(DictSet(omx_keys, SkimKeyOf(names[k]), names[k]),
                           names, tags_to_load, k + 1)

\* key2_dict = key1_subkeys.setdefault(key1, {}); key2_dict[key2] = len(key2_dict)
AddSubkey(key1_subkeys, skim_key) ==
    LET key1 == Key1Of(skim_key)
        key2 == Key2Of(skim_key)
        key2_dict == IF DictHas(key1_subkeys, key1) THEN DictGet(key1_subkeys, key1) ELSE << >>
    IN  DictSet(key1_subkeys, key1, DictSet(key2_dict, key2, Len(key2_dict)))

RECURSIVE BuildKey1Subkeys(_, _, _)
BuildKey1Subkeys(key1_subkeys, omx_keys, k) ==
    IF k > Len(omx_keys) THEN key1_subkeys
    ELSE BuildKey1Subkeys(AddSubkey(key1_subkeys, omx_keys[k].key), omx_keys, k + 1)

\* key1_block_offsets[key1] = offset; offset += num_subkeys
RECURSIVE BuildKey1BlockOffsets(_, _, _, _)
BuildKey1BlockOffsets(key1_block_offsets, key1_subkeys, offset, k) ==
    IF k > Len(key1_subkeys) THEN key1_block_offsets
    ELSE BuildKey1BlockOffsets(
            DictSet(key1_block_offsets, key1_subkeys[k].key, offset),
            key1_subkeys, offset + Len(key1_subkeys[k].value), k + 1)

\* block_offsets[skim_key] = key1_offset + key2_relative_offset
BlockOffsetOf(skim_key, key1_subkeys, key1_block_offsets) ==
    DictGet(key1_block_offsets, Key1Of(skim_key))
        + DictGet(DictGet(key1_subkeys, Key1Of(skim_key)), Key2Of(skim_key))

BuildBlockOffsets(omx_keys, key1_subkeys, key1_block_offsets) ==
    [k \in 1..Len(omx_keys) |->
        [key |-> omx_keys[k].key,
         value |-> BlockOffsetOf(omx_keys[k].key, key1_subkeys, key1_block_offsets)]]

\* load_skim_info(skim_tag, omx_file_names, skim_time_periods): the skim_info
\* dict, or the exception raised
load_skim_info(skim_tag, files, time_periods) ==
    LET scan == ScanFiles(ScanStart, files, 1)
        tags_to_load == TagsToLoad(time_periods)
        omx_keys == BuildOmxKeys(<< >>, DictKeys(scan.omx_manifest), tags_to_load, 1)
        key1_subkeys == BuildKey1Subkeys(<< >>, omx_keys, 1)
        key1_block_offsets == BuildKey1BlockOffsets(<< >>, key1_subkeys, 0, 1)
    IN  IF scan.err # "none"
        THEN [kind |-> "raise", err |-> scan.err]
        ELSE [kind |-> "skim_info",
              skim_tag |-> skim_tag,
              omx_file_names |-> [i \in 1..Len(files) |-> files[i].file_name],
              omx_manifest |-> scan.omx_manifest,
              omx_shape |-> scan.omx_shape,
              num_skims |-> Len(omx_keys),
              dtype |-> "float32",
              offset_map_name |-> scan.offset_map_name,
              offset_map |-> scan.offset_map,
              omx_keys |-> omx_keys,
              key1_block_offsets |-> key1_block_offsets,
              block_offsets |-> BuildBlockOffsets(omx_keys, key1_subkeys, key1_block_offsets)]

----
\* Buffers, views and the cache file

PyBuffer(items) == [kind |-> "buffer", items |-> items]

CacheFile(items) == [kind |-> "file", items |-> items]

\* skims_shape = omx_shape + (num_skims,)
SkimsShape(info) == <<info.omx_shape.dims[1], info.omx_shape.dims[2], info.num_skims>>

\* multiply_large_numbers(list_of_numbers)
multiply_large_numbers(dims) == dims[1] * dims[2] * (IF Len(dims) > 2 THEN dims[3] ELSE 1)

Indices(shape) == (0..(shape[1] - 1)) \X (0..(shape[2] - 1)) \X (0..(shape[3] - 1))

\* position in the flat storage of element [i, j, k] of a C-ordered array
FlatIndex(shape, i, j, k) == (i * shape[2] + j) * shape[3] + k + 1

\* np.frombuffer(...).reshape(shape) / np.memmap(..., shape=shape): the array
\* seen through the flat storage
View(items, shape) ==
    [x \in Indices(shape) |-> items[FlatIndex(shape, x[1], x[2], x[3])]]

\* the index [i, j, k] of the element stored at flat position n
UnflattenIndex(shape, n) ==
    CHOOSE x \in Indices(shape) : FlatIndex(shape, x[1], x[2], x[3]) = n

\* the flat storage after the whole array was assigned: a[::] = view
Store(view, shape) ==
    [n \in 1..multiply_large_numbers(shape) |-> view[UnflattenIndex(shape, n)]]

\* allocate_skim_buffer(skim_info, shared): the element count is computed from
\* omx_shape, which is None when no file was listed
allocate_skim_buffer(info) ==
    IF IsNone(info.omx_shape)
    THEN [kind |-> "raise", err |-> "TypeError: reduce() arg 2 must support iteration"]
    ELSE PyBuffer([n \in 1..(multiply_large_numbers(info.omx_shape.dims) * info.num_skims) |-> 0])

\* assert len(skim_buffer) == int(multiply_large_numbers(skims_shape))
BufferFits(info, buffer) == Len(buffer.items) = multiply_large_numbers(SkimsShape(info))

----
\* The payload of the source files: the element [i, j] of matrix name

CharCode(c) ==
    CASE c = "D" -> 1 [] c = "T" -> 2 [] c = "A" -> 3 [] c = "P" -> 4 [] OTHER -> 0

RECURSIVE NameCode(_, _)
NameCode(name, n) ==
    IF n = 0 THEN 0 ELSE NameCode(name, n - 1) + n * CharCode(name[n])

OmxData(file, name, i, j) ==
    100 * file.file_name + 10 * NameCode(name, Len(name)) + i * file.shape[2] + j + 1

----
\* The loader: the world is the buffer being filled, the cache file and the
\* log of file accesses; err is the exception raised, if any

World(buffer, cache, log) == [err |-> "none", buffer |-> buffer, cache |-> cache, log |-> log]

\* a = skim_data[:, :, offset]; a[:] = omx_data[:]
WriteSlice(items, shape, offset, file, name) ==
    [n \in 1..Len(items) |->
        LET x == UnflattenIndex(shape, n)
        IN  IF x[3] = offset THEN OmxData(file, name, x[1], x[2]) ELSE items[n]]

\* if omx_manifest[omx_key] == omx_file_name
InThisFile(info, omx_key, file_name) == DictGet(info.omx_manifest, omx_key) = file_name

\* for skim_key, omx_key in omx_keys.items(): ...
RECURSIVE ReadFileSkims(_, _, _, _)
ReadFileSkims(w, info, file, k) ==
    IF k > Len(info.omx_keys) THEN w
    ELSE LET skim_key == info.omx_keys[k].key
             omx_key == info.omx_keys[k].value
         IN  IF InThisFile(info, omx_key, file.file_name)
             THEN ReadFileSkims(
                    [w EXCEPT !.buffer = PyBuffer(WriteSlice(w.buffer.items, SkimsShape(info),
                                                DictGet(info.block_offsets, skim_key),
                                                file, omx_key)),
                              !.log = Append(@, [op |-> "omx_read", file |-> file.file_name,
                                                 omx_key |-> omx_key])],
                    info, file, k + 1)
             ELSE ReadFileSkims(w, info, file, k + 1)

\* read_skims_from_omx(skim_info, skim_data)
RECURSIVE read_skims_from_omx(_, _, _, _)
read_skims_from_omx(w, info, files, i) ==
    IF i > Len(info.omx_file_names) THEN w
    ELSE read_skims_from_omx(ReadFileSkims(w, info, files[info.omx_file_names[i]], 1),
                             info, files, i + 1)

\* np.memmap(path, shape=shape, mode='r') maps the first prod(shape) elements
\* of the file and raises ValueError when the file is shorter than that
MemmapFits(cache, count) == Len(cache.items) >= count

\* read_skim_cache(skim_info, skim_data)
read_skim_cache(w, info) ==
    LET shape == SkimsShape(info)
        count == multiply_large_numbers(shape)
    IN  IF IsNone(w.cache)
        THEN [w EXCEPT !.err = "AssertionError: read_skim_cache could not find skim_cache_path"]
        ELSE IF ~MemmapFits(w.cache, count)
             THEN [w EXCEPT !.err = "ValueError: mmap length is greater than file size",
                            !.log = Append(@, [op |-> "cache_open_r"])]
             ELSE [w EXCEPT !.buffer = PyBuffer(Store(View(SubSeq(w.cache.items, 1, count), shape),
                                                      shape)),
                            !.log = Append(@, [op |-> "cache_read"])]

\* the file written in column-major order
write_skim_cache_Fortran(w, info) ==
    LET shape == SkimsShape(info)
        view == View(w.buffer.items, shape)
    IN  [w EXCEPT !.cache = CacheFile([n \in 1..Len(w.buffer.items) |->
                        view[CHOOSE x \in Indices(shape) :
                                (x[3] * shape[2] + x[2]) * shape[1] + x[1] + 1 = n]]),
                  !.log = Append(@, [op |-> "cache_write"])]

\* write_skim_cache(skim_info, skim_data): mode 'w+' creates or overwrites the
\* file with exactly prod(shape) elements
write_skim_cache(w, info) ==
    LET shape == SkimsShape(info)
    IN  [w EXCEPT !.cache = CacheFile(Store(View(w.buffer.items, shape), shape)),
                  !.log = Append(@, [op |-> "cache_write"])]

\* the flags are not checked
FlagsExclusive_Unchecked(read_cache, write_cache) == TRUE

\* assert not (read_cache and write_cache)
FlagsExclusive(read_cache, write_cache) == ~(read_cache /\ write_cache)

\* load_skims(skim_info, skim_buffer)
load_skims(w, info, files, read_cache, write_cache) ==
    IF ~FlagsExclusive(read_cache, write_cache)
    THEN [w EXCEPT !.err = "AssertionError: read_skim_cache and write_skim_cache are both True"]
    ELSE IF ~BufferFits(info, w.buffer)
    THEN [w EXCEPT !.err = "AssertionError: len(skim_buffer)"]
    ELSE LET filled == IF read_cache THEN read_skim_cache(w, info)
                       ELSE read_skims_from_omx(w, info, files, 1)
         IN  IF filled.err = "none" /\ write_cache
             THEN write_skim_cache(filled, info)
             ELSE filled

\* the offset mapper set up at the end of create_skim_dict
OffsetMapper(offset_map) ==
    IF ~IsNone(offset_map)
    THEN [kind |-> "list", offset_list |-> offset_map.items, offset_int |-> 0]
    ELSE [kind |-> "int", offset_list |-> << >>, offset_int |-> 0 - 1]

----
\* The inputs: source files, period labels, settings

D == <<"D">>
T_A == <<"T", "_", "A">>
D__A == <<"D", "_", "_", "A">>
D__D == <<"D", "_", "_", "D">>
T__A == <<"T", "_", "_", "A">>
T__P == <<"T", "_", "_", "P">>

\* matrix names of the catalog checks
CatalogNames == {D, T_A, D__A, D__D, T__A, T__P}

\* skim_time_periods: not configured, or its 'labels' list
TimePeriodSettings ==
    {NoneVal} \cup {[kind |-> "dict", labels |-> l] :
                        l \in {<< >>, <<<<"A">>>>, <<<<"A">>, <<"P">>>>,
                               <<<<"A">>, <<"P">>, <<"D">>>>}}

OmxFile(shape, matrices, mappings) ==
    [shape |-> shape, matrices |-> matrices, mappings |-> mappings]

\* omx_file_names: at most MaxFiles files with the given contents, the file
\* at position i being named i
FileLists(contents) ==
    {[i \in 1..Len(fs) |->
        [file_name |-> i, shape |-> fs[i].shape, matrices |-> fs[i].matrices,
         mappings |-> fs[i].mappings]] : fs \in SeqsUpTo(contents, MaxFiles)}

CatalogFiles ==
    FileLists({OmxFile(<<1, 1>>, ms, << >>) : ms \in DistinctSeqs(CatalogNames, MaxMatrices)})

DefaultSettings ==
    [read_skim_cache |-> FALSE, write_skim_cache |-> FALSE, data_buffers |-> FALSE,
     network_los |-> NoneVal]

NewLos ==
    [zone_system |-> NoneVal, skim_info |-> << >>, table_info |-> {},
     maz_to_taz_df |-> NoneVal, maz_to_maz_df |-> NoneVal,
     maz_to_maz_cardinality |-> NoneVal, skim_buffers |-> << >>,
     skim_dicts |-> << >>]

\* the pipeline module of a new process, and an empty checkpoint store
NewPipeline ==
    [is_open |-> FALSE, store |-> << >>, checkpoints |-> << >>, tables |-> << >>,
     base_seed |-> 0, step_run |-> FALSE, was_opened |-> FALSE,
     resume_after |-> NoneVal, previous |-> << >>]

\* No table file is configured.
NoTables ==
    [maz_to_taz |-> << >>, maz_to_maz |-> << >>]

InitRest ==
    /\ skim_info = NoneVal
    /\ skim_buffer = NoneVal
    /\ other_buffer = NoneVal
    /\ skim_dict = NoneVal
    /\ los = NewLos
    /\ io_log = << >>
    /\ result = NoneVal
    /\ pipeline = NewPipeline
    /\ workers = [worker \in 1..MaxWorkers |-> << >>]
    /\ pc = "start"
    /\ err = "none"

----
\* Operations

\* skim_info = load_skim_info('taz', omx_file_names, skim_time_periods)
LoadSkimInfo ==
    /\ pc = "start"
    /\ LET r == load_skim_info("taz", omx_files, skim_time_periods)
       IN  IF r.kind = "raise"
           THEN /\ pc' = "failed"
                /\ err' = r.err
                /\ UNCHANGED skim_info
           ELSE /\ pc' = "catalogued"
                /\ skim_info' = r
                /\ UNCHANGED err
    /\ UNCHANGED <<table_files, result, pipeline, workers>>
    /\ UNCHANGED <<omx_files, skim_time_periods, settings, skim_buffer, other_buffer,
                   cache_file, skim_dict, los, io_log>>

\* Network_LOS.allocate_shared_skim_buffers(): one zeroed buffer for the tag
\* (other_buffer stands for a second buffer of the same tag and shape, as
\* another process would allocate it)
AllocateSharedSkimBuffers ==
    /\ pc = "catalogued"
    /\ IsNone(skim_buffer)
    /\ LET b == allocate_skim_buffer(skim_info)
       IN  IF b.kind = "raise"
           THEN /\ pc' = "failed"
                /\ err' = b.err
                /\ UNCHANGED <<skim_buffer, other_buffer>>
           ELSE /\ pc' = "allocated"
                /\ skim_buffer' = b
                /\ other_buffer' = b
                /\ UNCHANGED err
    /\ UNCHANGED <<table_files, result, pipeline, workers>>
    /\ UNCHANGED <<omx_files, skim_time_periods, settings, skim_info, cache_file,
                   skim_dict, los, io_log>>

\* the outcome of a loader call on the shared buffer
Outcome(w) ==
    /\ skim_buffer' = w.buffer
    /\ cache_file' = w.cache
    /\ io_log' = w.log
    /\ err' = w.err
    /\ pc' = IF w.err = "none" THEN "allocated" ELSE "failed"

\* Network_LOS.load_shared_data(shared_data_buffers): load_skims on the buffer
LoadSkims ==
    /\ pc = "allocated"
    /\ Len(io_log) < MaxLog
    /\ Outcome(load_skims(World(skim_buffer, cache_file, io_log), skim_info, omx_files,
                          settings.read_skim_cache, settings.write_skim_cache))
    /\ UNCHANGED <<table_files, result, pipeline, workers>>
    /\ UNCHANGED <<omx_files, skim_time_periods, settings, skim_info, other_buffer,
                   skim_dict, los>>

\* write_skim_cache(skim_info, skim_data) on the view of the buffer
WriteSkimCache ==
    /\ pc = "allocated"
    /\ Len(io_log) < MaxLog
    /\ Outcome(write_skim_cache(World(skim_buffer, cache_file, io_log), skim_info))
    /\ UNCHANGED <<table_files, result, pipeline, workers>>
    /\ UNCHANGED <<omx_files, skim_time_periods, settings, skim_info, other_buffer,
                   skim_dict, los>>

\* read_skim_cache(skim_info, other) on the view of the second buffer
ReadSkimCache ==
    /\ pc = "allocated"
    /\ Len(io_log) < MaxLog
    /\ LET w == read_skim_cache(World(other_buffer, cache_file, io_log), skim_info)
       IN  /\ other_buffer' = w.buffer
           /\ cache_file' = w.cache
           /\ io_log' = w.log
           /\ err' = w.err
           /\ pc' = IF w.err = "none" THEN "allocated" ELSE "failed"
    /\ UNCHANGED <<table_files, result, pipeline, workers>>
    /\ UNCHANGED <<omx_files, skim_time_periods, settings, skim_info, skim_buffer,
                   skim_dict, los>>

\* create_skim_dict(skim_tag, skim_info): bind to the injected buffer, or
\* allocate a private one and load it; then set up the offset mapper
CreateSkimDict ==
    /\ pc \in {"catalogued", "allocated"}
    /\ IsNone(skim_dict)
    /\ settings.data_buffers => ~IsNone(skim_buffer)
    /\ LET alloc == IF settings.data_buffers THEN skim_buffer ELSE allocate_skim_buffer(skim_info)
           w == IF alloc.kind = "raise" THEN [World(NoneVal, cache_file, io_log) EXCEPT !.err = alloc.err]
                ELSE IF settings.data_buffers THEN World(alloc, cache_file, io_log)
                ELSE load_skims(World(alloc, cache_file, io_log), skim_info, omx_files,
                                settings.read_skim_cache, settings.write_skim_cache)
           fits == w.err # "none" \/ BufferFits(skim_info, w.buffer)
       IN  /\ cache_file' = w.cache
           /\ io_log' = w.log
           /\ IF w.err # "none" \/ ~fits
              THEN /\ pc' = "failed"
                   /\ err' = IF w.err # "none" THEN w.err ELSE "AssertionError: len(skim_buffer)"
                   /\ UNCHANGED skim_dict
              ELSE /\ pc' = "ready"
                   /\ skim_dict' = [kind |-> "SkimDict",
                                    existing_buffer |-> settings.data_buffers,
                                    skim_data |-> w.buffer.items,
                                    offset_mapper |-> OffsetMapper(skim_info.offset_map)]
                   /\ UNCHANGED err
    /\ UNCHANGED <<table_files, result, pipeline, workers>>
    /\ UNCHANGED <<omx_files, skim_time_periods, settings, skim_info, skim_buffer,
                   other_buffer, los>>

PyInt(n) == [kind |-> "int", value |-> n]

\* self.zone_system in [ONE_ZONE, TWO_ZONE]
RecognizedZoneSystem(zone_system) ==
    zone_system.kind = "int" /\ zone_system.value \in {ONE_ZONE, TWO_ZONE}

\* self.zone_system in [TWO_ZONE, THREE_ZONE]
NeedsTables(zone_system) ==
    zone_system.kind = "int" /\ zone_system.value \in {TWO_ZONE, THREE_ZONE}

\* for skim_tag, file_names in skim_file_names.items():
\*     self.skim_info[skim_tag] = self.load_skim_info(skim_tag, file_names)
\* the catalogs of the tags before the first one that raises, and its exception
LoadTagInfos(tags, files, time_periods) ==
    LET results == [k \in 1..Len(tags) |-> load_skim_info(tags[k], files, time_periods)]
        raising == {k \in 1..Len(tags) : results[k].kind = "raise"}
        stop == IF raising = {} THEN Len(tags) + 1
                ELSE CHOOSE k \in raising : \A j \in raising : k <= j
    IN  [skim_info |-> [k \in 1..(stop - 1) |-> [key |-> tags[k], value |-> results[k]]],
         err |-> IF raising = {} THEN "none" ELSE results[stop].err]

\* read_los_settings after the catalogs were loaded: 'taz' must be among
\* them, and a two or three zone system must name its tables
CheckTables(s1, los_settings, loaded) ==
    LET s2 == [s1 EXCEPT !.skim_info = loaded.skim_info]
        s3 == [s2 EXCEPT !.table_info = los_settings.tables]
    IN  IF loaded.err # "none" THEN [los |-> s2, err |-> loaded.err]
        ELSE IF ~DictHas(s2.skim_info, "taz")
        THEN [los |-> s2, err |-> "AssertionError: 'taz' in self.skim_info"]
        ELSE IF ~NeedsTables(s2.zone_system) THEN [los |-> s2, err |-> "none"]
        ELSE IF REQUIRED_TWO_ZONE_TABLES \subseteq s3.table_info
        THEN [los |-> s3, err |-> "none"]
        ELSE [los |-> s3, err |-> "AssertionError: file name not listed in network_los.tables"]

\* Network_LOS.read_los_settings(): the fields of the object afterwards and
\* the exception raised, if any (the catalogs are computed once and bound)
read_los_settings(self, los_settings, files, time_periods) ==
    IF IsNone(los_settings)
    THEN [los |-> self, err |-> "AssertionError: 'network_los' settings not in settings file"]
    ELSE LET s1 == [self EXCEPT !.zone_system = los_settings.zone_system]
         IN  IF ~RecognizedZoneSystem(s1.zone_system)
             THEN [los |-> s1, err |-> "AssertionError: unrecognized zone_system"]
             ELSE IF IsNone(los_settings.skims)
             THEN [los |-> s1, err |-> "AssertionError: 'skims' list not found"]
             ELSE CHOOSE out \in
                    {CheckTables(s1, los_settings, loaded) :
                        loaded \in {LoadTagInfos(los_settings.skims.items, files, time_periods)}} :
                    TRUE

\* Network_LOS(): the constructor reads skim_time_periods and the settings
ReadLosSettings ==
    /\ pc = "start"
    /\ \E r \in {read_los_settings(NewLos, settings.network_los, omx_files, skim_time_periods)} :
           /\ los' = r.los
           /\ err' = r.err
           /\ pc' = IF r.err = "none" THEN "settings_read" ELSE "failed"
    /\ UNCHANGED <<table_files, result, pipeline, workers>>
    /\ UNCHANGED <<omx_files, skim_time_periods, settings, skim_info, skim_buffer,
                   other_buffer, cache_file, skim_dict, io_log>>

----
\* The zone-pair tables of a two zone system

\* not-a-number, the cell of a row that a joined file does not hold
NaN == 0 - 1

\* a row of a maz_to_maz csv file: its OMAZ and DMAZ columns and its one
\* attribute column
CsvRow(omaz, dmaz, value) == [OMAZ |-> omaz, DMAZ |-> dmaz, value |-> value]

\* the attribute column of the maz_to_maz file at position k
AttributeOf(k) == k

\* self.maz_to_taz_df.MAZ.max()
MaxOf(values) ==
    CHOOSE m \in SeqToSet(values) : \A v \in SeqToSet(values) : v <= m

\* df.OMAZ * self.maz_to_maz_cardinality + df.DMAZ
SyntheticIndex(omaz, dmaz, cardinality) == omaz * cardinality + dmaz

\* set_index(..., verify_integrity=False)
IndexIsUnique_Unchecked(indexed) == TRUE

\* df.set_index('i', drop=True, inplace=True, verify_integrity=True) raises
\* ValueError when two rows have the same index
IndexIsUnique(indexed) ==
    \A a, b \in 1..Len(indexed) : indexed[a].i = indexed[b].i => a = b

\* df['i'] = ...; df.set_index('i', ...); df.drop(columns=['OMAZ', 'DMAZ']):
\* the rows of the file at position k, each under its synthetic index
IndexedFile(rows, k, cardinality) ==
    [r \in 1..Len(rows) |->
        [i |-> SyntheticIndex(rows[r].OMAZ, rows[r].DMAZ, cardinality),
         cells |-> <<[key |-> AttributeOf(k), value |-> rows[r].value]>>]]

DfColumns(df) ==
    UNION {SeqToSet(DictKeys(df[r].cells)) : r \in 1..Len(df)}

DfIndex(df) == {df[r].i : r \in 1..Len(df)}

DfRow(df, i) == df[CHOOSE r \in 1..Len(df) : df[r].i = i]

DfCell(df, i, column) ==
    IF i \in DfIndex(df) /\ DictHas(DfRow(df, i).cells, column)
    THEN DictGet(DfRow(df, i).cells, column)
    ELSE NaN

\* pd.concat([self.maz_to_maz_df, df], axis=1): the rows of both frames
\* joined on the index, each with the columns of both
Concat(left, right) ==
    LET added == SelectSeq(right, LAMBDA row : row.i \notin DfIndex(left))
        index == [r \in 1..(Len(left) + Len(added)) |->
                    IF r <= Len(left) THEN left[r].i ELSE added[r - Len(left)].i]
    IN  [r \in 1..Len(index) |->
            [i |-> index[r],
             cells |->
                (IF index[r] \in DfIndex(left) THEN DfRow(left, index[r]).cells ELSE << >>)
                \o (IF index[r] \in DfIndex(right) THEN DfRow(right, index[r]).cells
                    ELSE << >>)]]

\* for file_name in file_names: ... the frame after the files before the
\* first one whose index is not unique, and its exception
RECURSIVE LoadMazToMaz(_, _, _, _)
LoadMazToMaz(files, k, cardinality, df) ==
    IF k > Len(files) THEN [df |-> df, err |-> "none"]
    ELSE LET indexed == IndexedFile(files[k], k, cardinality)
         IN  IF ~IndexIsUnique(indexed)
             THEN [df |-> df, err |-> "ValueError: Index has duplicate keys"]
             ELSE LoadMazToMaz(files, k + 1, cardinality,
                               IF IsNone(df) THEN [kind |-> "DataFrame", rows |-> indexed]
                               ELSE [kind |-> "DataFrame",
                                     rows |-> Concat(df.rows, indexed)])

\* Network_LOS.load_all_tables(): the fields of the object afterwards and
\* the exception raised, if any
load_all_tables(self, tables) ==
    IF ~NeedsTables(self.zone_system) THEN [los |-> self, err |-> "none"]
    ELSE IF "maz_to_taz" \notin self.table_info
    THEN [los |-> self, err |-> "AssertionError: file_names not found for 'maz_to_taz'"]
    ELSE LET cardinality == MaxOf(tables.maz_to_taz) + 1
             s1 == [self EXCEPT !.maz_to_taz_df = [kind |-> "DataFrame",
                                                   MAZ |-> tables.maz_to_taz],
                                !.maz_to_maz_cardinality = PyInt(cardinality)]
         IN  IF "maz_to_maz" \notin self.table_info
             THEN [los |-> s1,
                   err |-> "AssertionError: file_names not found for 'maz_to_maz'"]
             ELSE CHOOSE out \in
                    {[los |-> [s1 EXCEPT !.maz_to_maz_df = loaded.df], err |-> loaded.err] :
                        loaded \in {LoadMazToMaz(tables.maz_to_maz, 1, cardinality,
                                                 self.maz_to_maz_df)}} : TRUE

\* util.quick_loc_df(loc_list, target_df, attribute): the attribute of the
\* row of each index of loc_list, in the order of loc_list, not-a-number for
\* an index that target_df does not hold
quick_loc_df(loc_list, target_df, attribute) ==
    [k \in 1..Len(loc_list) |-> DfCell(target_df.rows, loc_list[k], attribute)]

\* Network_LOS.get_mazpairs(omaz, dmaz, attribute)
get_mazpairs(self, omaz, dmaz, attribute) ==
    IF IsNone(self.maz_to_maz_cardinality) \/ IsNone(self.maz_to_maz_df)
    THEN [kind |-> "raise", err |-> "TypeError: unsupported operand type(s)"]
    ELSE IF attribute \notin DfColumns(self.maz_to_maz_df.rows)
    THEN [kind |-> "raise", err |-> "KeyError: attribute"]
    ELSE LET i == [k \in 1..Len(omaz) |->
                      SyntheticIndex(omaz[k], dmaz[k], self.maz_to_maz_cardinality.value)]
         IN  [kind |-> "array", omaz |-> omaz, dmaz |-> dmaz, attribute |-> attribute,
              values |-> quick_loc_df(i, self.maz_to_maz_df, attribute)]

\* los.load_all_tables() of a Network_LOS whose settings were read
LoadAllTables ==
    /\ pc = "settings_read"
    /\ \E r \in {load_all_tables(los, table_files)} :
           /\ los' = r.los
           /\ err' = r.err
           /\ pc' = IF r.err = "none" THEN "tables_loaded" ELSE "failed"
    /\ UNCHANGED <<table_files, result, pipeline, workers>>
    /\ UNCHANGED <<omx_files, skim_time_periods, settings, skim_info, skim_buffer,
                   other_buffer, cache_file, skim_dict, io_log>>

\* the zone pairs of the files and of the callers
MazPairs == {<<1, 0>>, <<1, 2>>, <<0, 2>>}

\* los.get_mazpairs(omaz, dmaz, attribute) for any zone pairs and any
\* attribute of the files
GetMazpairs ==
    /\ pc = "tables_loaded"
    /\ \E q \in SeqsUpTo(MazPairs, MaxQuery) \ {<< >>},
          attribute \in 1..MaxTableFiles :
           \E r \in {get_mazpairs(los, [k \in 1..Len(q) |-> q[k][1]],
                                  [k \in 1..Len(q) |-> q[k][2]], attribute)} :
               IF r.kind = "raise"
               THEN /\ err' = r.err
                    /\ pc' = "failed"
                    /\ UNCHANGED result
               ELSE /\ result' = r
                    /\ UNCHANGED <<err, pc>>
    /\ UNCHANGED <<table_files, pipeline, workers>>
    /\ UNCHANGED <<omx_files, skim_time_periods, settings, skim_info, skim_buffer,
                   other_buffer, cache_file, skim_dict, los, io_log>>

----
\* The pipeline and its checkpoint store

PyStr(s) == [kind |-> "str", value |-> s]

\* a checkpoint: the step that made it, the snapshot of every table and the
\* base seed of the random number generator
Checkpoint(name, tables, seed) ==
    [checkpoint_name |-> name, tables |-> tables, base_seed |-> seed]

CheckpointNames(checkpoints) ==
    [k \in 1..Len(checkpoints) |-> checkpoints[k].checkpoint_name]

InCheckpoints(name, checkpoints) ==
    \E k \in 1..Len(checkpoints) : checkpoints[k].checkpoint_name = name

CheckpointIndex(name, checkpoints) ==
    CHOOSE k \in 1..Len(checkpoints) : checkpoints[k].checkpoint_name = name

\* the model steps and the tables they write
Steps == {"A", "B", "C"}

TableNames == {"households", "persons"}

StepCode(step) == CASE step = "A" -> 1 [] step = "B" -> 2 [] OTHER -> 3

StepWrites(step) ==
    CASE step = "A" -> <<"households">>
      [] step = "B" -> <<"persons">>
      [] OTHER -> <<"households", "persons">>

\* a draw of the generator, keyed by the step name and the base seed
Draw(step, seed) == StepCode(step) + seed

\* the step's logic: every table the step writes gets a value computed from
\* its old value (0 when the step creates it) and the step's draw
RECURSIVE WriteTables(_, _, _, _)
WriteTables(tables, names, k, draw) ==
    IF k > Len(names) THEN tables
    ELSE LET old == IF DictHas(tables, names[k]) THEN DictGet(tables, names[k]) ELSE 0
         IN  WriteTables(DictSet(tables, names[k], (2 * old + draw) % TableModulus),
                         names, k + 1, draw)

RunStep(tables, step, seed) == WriteTables(tables, StepWrites(step), 1, Draw(step, seed))

Returned(p, value) == [pipeline |-> p, raised |-> "none", value |-> value]

Raised(p, message) == [pipeline |-> p, raised |-> message, value |-> NoneVal]

\* a setter that never refuses
set_rn_generator_base_seed_Always(p, seed) ==
    Returned([p EXCEPT !.base_seed = seed], NoneVal)

\* a setter that refuses only after a model step has run
set_rn_generator_base_seed_AfterStep(p, seed) ==
    IF p.step_run
    THEN Raised(p, "RuntimeError: call set_rn_generator_base_seed before the first step")
    ELSE Returned([p EXCEPT !.base_seed = seed], NoneVal)

\* pipeline.set_rn_generator_base_seed(seed)
set_rn_generator_base_seed(p, seed) ==
    IF p.is_open \/ p.step_run
    THEN Raised(p, "RuntimeError: call set_rn_generator_base_seed before the first step")
    ELSE Returned([p EXCEPT !.base_seed = seed], NoneVal)

\* pipeline.get_rn_generator()
get_rn_generator(p) == Returned(p, [kind |-> "rng", base_seed |-> p.base_seed])

\* a resume that keeps the later checkpoints in the history
UpTo_All(checkpoints, name) == checkpoints

\* the checkpoints up to and including the one named name
UpTo(checkpoints, name) == SubSeq(checkpoints, 1, CheckpointIndex(name, checkpoints))

\* a resume that keeps the tables of the last stored checkpoint
open_pipeline_LatestTables(p, resume_after) ==
    LET called == [p EXCEPT !.was_opened = TRUE]
    IN  IF p.is_open THEN Raised(p, "RuntimeError: pipeline is already open")
        ELSE IF IsNone(resume_after)
        THEN Returned([called EXCEPT !.is_open = TRUE, !.store = << >>,
                                     !.checkpoints = << >>, !.tables = << >>,
                                     !.resume_after = resume_after,
                                     !.previous = p.store], NoneVal)
        ELSE IF ~InCheckpoints(resume_after.value, p.store)
        THEN Raised(p, "RuntimeError: resume_after checkpoint not in checkpoints")
        ELSE LET kept == UpTo(p.store, resume_after.value)
             IN  Returned([called EXCEPT !.is_open = TRUE, !.store = kept,
                                         !.checkpoints = kept,
                                         !.tables = p.store[Len(p.store)].tables,
                                         !.resume_after = resume_after,
                                         !.previous = p.store], NoneVal)

\* pipeline.open_pipeline(resume_after); was_opened records that the process
\* has opened the pipeline, previous what the store held before the call
open_pipeline(p, resume_after) ==
    LET called == [p EXCEPT !.was_opened = TRUE]
    IN  IF p.is_open THEN Raised(p, "RuntimeError: pipeline is already open")
        ELSE IF IsNone(resume_after)
        THEN Returned([called EXCEPT !.is_open = TRUE, !.store = << >>,
                                     !.checkpoints = << >>, !.tables = << >>,
                                     !.resume_after = resume_after,
                                     !.previous = p.store], NoneVal)
        ELSE IF ~InCheckpoints(resume_after.value, p.store)
        THEN Raised(p, "RuntimeError: resume_after checkpoint not in checkpoints")
        ELSE LET kept == UpTo(p.store, resume_after.value)
             IN  Returned([called EXCEPT !.is_open = TRUE, !.store = kept,
                                         !.checkpoints = kept,
                                         !.tables = kept[Len(kept)].tables,
                                         !.resume_after = resume_after,
                                         !.previous = p.store], NoneVal)

\* run_model without the look at the checkpoint history
run_model_Unchecked(p, model_name) ==
    IF ~p.is_open THEN Raised(p, "RuntimeError: pipeline is not open")
    ELSE LET tables == RunStep(p.tables, model_name, p.base_seed)
             checkpoints == Append(p.checkpoints,
                                   Checkpoint(model_name, tables, p.base_seed))
         IN  Returned([p EXCEPT !.tables = tables, !.checkpoints = checkpoints,
                                !.store = checkpoints, !.step_run = TRUE], NoneVal)

\* pipeline.run_model(model_name)
run_model(p, model_name) ==
    IF ~p.is_open THEN Raised(p, "RuntimeError: pipeline is not open")
    ELSE IF InCheckpoints(model_name, p.checkpoints)
    THEN Raised(p, "RuntimeError: cannot run model more than once")
    ELSE LET tables == RunStep(p.tables, model_name, p.base_seed)
             checkpoints == Append(p.checkpoints,
                                   Checkpoint(model_name, tables, p.base_seed))
         IN  Returned([p EXCEPT !.tables = tables, !.checkpoints = checkpoints,
                                !.store = checkpoints, !.step_run = TRUE], NoneVal)

\* a get_table that returns the latest table whatever checkpoint is named
get_table_Latest(p, table_name, checkpoint_name) ==
    IF ~p.is_open THEN Raised(p, "RuntimeError: pipeline is not open")
    ELSE IF ~IsNone(checkpoint_name) /\ ~InCheckpoints(checkpoint_name.value, p.checkpoints)
    THEN Raised(p, "RuntimeError: checkpoint not in checkpoints")
    ELSE IF ~DictHas(p.tables, table_name)
    THEN Raised(p, "RuntimeError: table never checkpointed")
    ELSE Returned(p, [kind |-> "table", value |-> DictGet(p.tables, table_name)])

\* pipeline.get_table(table_name, checkpoint_name)
get_table(p, table_name, checkpoint_name) ==
    IF ~p.is_open THEN Raised(p, "RuntimeError: pipeline is not open")
    ELSE IF ~IsNone(checkpoint_name) /\ ~InCheckpoints(checkpoint_name.value, p.checkpoints)
    THEN Raised(p, "RuntimeError: checkpoint not in checkpoints")
    ELSE LET tables == IF IsNone(checkpoint_name) THEN p.tables
                       ELSE p.checkpoints[CheckpointIndex(checkpoint_name.value,
                                                          p.checkpoints)].tables
         IN  IF ~DictHas(tables, table_name)
             THEN Raised(p, "RuntimeError: table never checkpointed")
             ELSE Returned(p, [kind |-> "table", value |-> DictGet(tables, table_name)])

\* pipeline.close_pipeline()
close_pipeline(p) ==
    IF ~p.is_open THEN Returned(p, NoneVal)
    ELSE Returned([p EXCEPT !.is_open = FALSE, !.checkpoints = << >>, !.tables = << >>],
                  NoneVal)

\* what a call of the pipeline module leaves behind
Call(op, name, checkpoint_name, seed, r) ==
    /\ pipeline' = r.pipeline
    /\ err' = r.raised
    /\ result' = [kind |-> "call", op |-> op, name |-> name,
                  checkpoint_name |-> checkpoint_name, seed |-> seed, value |-> r.value]
    /\ UNCHANGED <<omx_files, skim_time_periods, settings, skim_info, skim_buffer,
                   other_buffer, cache_file, skim_dict, los, io_log, table_files, workers,
                   pc>>

SetRnGeneratorBaseSeed ==
    \E seed \in 0..MaxSeed :
        Call("set_rn_generator_base_seed", "", NoneVal, seed,
             set_rn_generator_base_seed(pipeline, seed))

GetRnGenerator ==
    Call("get_rn_generator", "", NoneVal, 0, get_rn_generator(pipeline))

OpenPipeline ==
    \E resume_after \in {NoneVal} \cup {PyStr(s) : s \in Steps} :
        Call("open_pipeline", "", resume_after, 0, open_pipeline(pipeline, resume_after))

RunModel ==
    \E model_name \in Steps :
        Call("run_model", model_name, NoneVal, 0, run_model(pipeline, model_name))

GetTable ==
    \E table_name \in TableNames \cup {"bogus"},
       checkpoint_name \in {NoneVal} \cup {PyStr(s) : s \in Steps \cup {"bogus"}} :
        Call("get_table", table_name, checkpoint_name, 0,
             get_table(pipeline, table_name, checkpoint_name))

ClosePipeline ==
    Call("close_pipeline", "", NoneVal, 0, close_pipeline(pipeline))

\* a new process on the same checkpoint store: the module's state is new
StartProcess ==
    /\ ~pipeline.is_open
    /\ pipeline' = [NewPipeline EXCEPT !.store = pipeline.store]
    /\ err' = "none"
    /\ result' = NoneVal
    /\ UNCHANGED <<omx_files, skim_time_periods, settings, skim_info, skim_buffer,
                   other_buffer, cache_file, skim_dict, los, io_log, table_files, workers,
                   pc>>

----
\* Shared skim buffers: the parent process allocates and loads them, the
\* worker processes bind their skim dictionaries to them

\* for skim_tag in self.skim_info.keys():
\*     self.skim_buffers[skim_tag] = allocate_skim_buffer(..., shared=True)
\* the buffers of the tags before the first one whose allocation raises
RECURSIVE AllocateTags(_, _, _)
AllocateTags(skim_infos, k, buffers) ==
    IF k > Len(skim_infos) THEN [skim_buffers |-> buffers, err |-> "none"]
    ELSE LET b == allocate_skim_buffer(skim_infos[k].value)
         IN  IF b.kind = "raise" THEN [skim_buffers |-> buffers, err |-> b.err]
             ELSE AllocateTags(skim_infos, k + 1, DictSet(buffers, skim_infos[k].key, b))

\* Network_LOS.allocate_shared_skim_buffers()
allocate_shared_skim_buffers(self) ==
    IF self.skim_buffers # << >>
    THEN [skim_buffers |-> self.skim_buffers, err |-> "AssertionError: not self.skim_buffers"]
    ELSE AllocateTags(self.skim_info, 1, self.skim_buffers)

\* Network_LOS.load_shared_data(shared_data_buffers): load_skims of every
\* tag on its buffer, up to the first that raises
RECURSIVE load_shared_data(_, _, _, _, _, _, _)
load_shared_data(skim_infos, k, shared_data_buffers, w, files, read_cache, write_cache) ==
    IF k > Len(skim_infos)
    THEN [skim_buffers |-> shared_data_buffers, cache |-> w.cache, log |-> w.log,
          err |-> "none"]
    ELSE IF ~DictHas(shared_data_buffers, skim_infos[k].key)
    THEN [skim_buffers |-> shared_data_buffers, cache |-> w.cache, log |-> w.log,
          err |-> "KeyError: skim_tag"]
    ELSE LET loaded == load_skims(World(DictGet(shared_data_buffers, skim_infos[k].key),
                                        w.cache, w.log),
                                  skim_infos[k].value, files, read_cache, write_cache)
             buffers == DictSet(shared_data_buffers, skim_infos[k].key, loaded.buffer)
         IN  IF loaded.err # "none"
             THEN [skim_buffers |-> buffers, cache |-> loaded.cache, log |-> loaded.log,
                   err |-> loaded.err]
             ELSE load_shared_data(skim_infos, k + 1, buffers, loaded, files,
                                   read_cache, write_cache)

\* np.frombuffer(skim_buffer, ...).reshape(skims_shape) of the injected buffer
\* of the tag: a view, which holds no elements of its own
ViewOfShared(skim_tag) == [kind |-> "view", of |-> skim_tag, items |-> << >>]

\* the same of a buffer that create_skim_dict allocated
PrivateArray(skim_tag, items) == [kind |-> "array", of |-> skim_tag, items |-> items]

\* skim.SkimDict(skim_data, skim_info) with its offset mapper
SkimDict(skim_tag, info, skim_data) ==
    [kind |-> "SkimDict", skim_tag |-> skim_tag, skim_data |-> skim_data,
     offset_mapper |-> OffsetMapper(info.offset_map)]

\* a create_skim_dict that does not look at the injectable
create_skim_dict_Private(skim_tag, info, data_buffers, w, files, read_cache, write_cache) ==
    LET alloc == allocate_skim_buffer(info)
    IN  IF alloc.kind = "raise" THEN [w EXCEPT !.err = alloc.err]
        ELSE LET loaded == load_skims(World(alloc, w.cache, w.log), info, files,
                                      read_cache, write_cache)
             IN  IF loaded.err # "none" THEN loaded
                 ELSE [loaded EXCEPT
                          !.buffer = SkimDict(skim_tag, info,
                                              PrivateArray(skim_tag, loaded.buffer.items))]

\* create_skim_dict(skim_tag, skim_info): data_buffers is the injectable,
\* << >> when it is absent
create_skim_dict(skim_tag, info, data_buffers, w, files, read_cache, write_cache) ==
    IF data_buffers # << >>
    THEN IF ~DictHas(data_buffers, skim_tag)
         THEN [w EXCEPT !.err = "KeyError: skim_tag"]
         ELSE IF ~BufferFits(info, DictGet(data_buffers, skim_tag))
         THEN [w EXCEPT !.err = "AssertionError: len(skim_buffer)"]
         ELSE [w EXCEPT !.buffer = SkimDict(skim_tag, info, ViewOfShared(skim_tag))]
    ELSE LET alloc == allocate_skim_buffer(info)
         IN  IF alloc.kind = "raise" THEN [w EXCEPT !.err = alloc.err]
             ELSE LET loaded == load_skims(World(alloc, w.cache, w.log), info, files,
                                           read_cache, write_cache)
                  IN  IF loaded.err # "none" THEN loaded
                      ELSE [loaded EXCEPT
                               !.buffer = SkimDict(skim_tag, info,
                                                   PrivateArray(skim_tag,
                                                                loaded.buffer.items))]

\* Network_LOS.load_all_skims(): the skim dictionaries of the tags up to the
\* first whose create_skim_dict raises
RECURSIVE load_all_skims(_, _, _, _, _, _, _, _)
load_all_skims(skim_infos, k, skim_dicts, data_buffers, w, files, read_cache, write_cache) ==
    IF k > Len(skim_infos)
    THEN [skim_dicts |-> skim_dicts, cache |-> w.cache, log |-> w.log, err |-> "none"]
    ELSE LET made == create_skim_dict(skim_infos[k].key, skim_infos[k].value, data_buffers,
                                      World(NoneVal, w.cache, w.log), files,
                                      read_cache, write_cache)
         IN  IF made.err # "none"
             THEN [skim_dicts |-> skim_dicts, cache |-> made.cache, log |-> made.log,
                   err |-> made.err]
             ELSE load_all_skims(skim_infos, k + 1,
                                 DictSet(skim_dicts, skim_infos[k].key, made.buffer),
                                 data_buffers, made, files, read_cache, write_cache)

\* the 'data_buffers' injectable: what allocate_shared_skim_buffers returned
\* once it has been injected, else absent
DataBuffers == IF settings.data_buffers THEN los.skim_buffers ELSE << >>

CallOf(op, worker) == [kind |-> "call", op |-> op, worker |-> worker]

\* the parent: shared_data_buffers = network_los.allocate_shared_skim_buffers()
AllocateBuffersOfTags ==
    /\ pc = "settings_read"
    /\ \E r \in {allocate_shared_skim_buffers(los)} :
           /\ los' = [los EXCEPT !.skim_buffers = r.skim_buffers]
           /\ err' = r.err
           /\ pc' = IF r.err = "none" THEN pc ELSE "failed"
    /\ result' = CallOf("allocate_shared_skim_buffers", 0)
    /\ UNCHANGED <<omx_files, skim_time_periods, settings, skim_info, skim_buffer,
                   other_buffer, cache_file, skim_dict, io_log, table_files, pipeline,
                   workers>>

\* the parent: network_los.load_shared_data(shared_data_buffers)
LoadSharedData ==
    /\ pc = "settings_read"
    /\ los.skim_buffers # << >>
    /\ Len(io_log) < MaxLog
    /\ \E r \in {load_shared_data(los.skim_info, 1, los.skim_buffers,
                                  World(NoneVal, cache_file, io_log), omx_files,
                                  settings.read_skim_cache, settings.write_skim_cache)} :
           /\ los' = [los EXCEPT !.skim_buffers = r.skim_buffers]
           /\ cache_file' = r.cache
           /\ io_log' = r.log
           /\ err' = r.err
           /\ pc' = IF r.err = "none" THEN pc ELSE "failed"
    /\ result' = CallOf("load_shared_data", 0)
    /\ UNCHANGED <<omx_files, skim_time_periods, settings, skim_info, skim_buffer,
                   other_buffer, skim_dict, table_files, pipeline, workers>>

\* the parent: inject.add_injectable('data_buffers', shared_data_buffers)
AddDataBuffersInjectable ==
    /\ pc = "settings_read"
    /\ los.skim_buffers # << >>
    /\ ~settings.data_buffers
    /\ settings' = [settings EXCEPT !.data_buffers = TRUE]
    /\ result' = CallOf("add_injectable", 0)
    /\ UNCHANGED <<omx_files, skim_time_periods, skim_info, skim_buffer, other_buffer,
                   cache_file, skim_dict, los, io_log, table_files, pipeline, workers,
                   pc, err>>

\* a worker: network_los.load_all_skims() on its own Network_LOS, which has
\* the catalogs of the same settings
LoadAllSkims ==
    /\ pc = "settings_read"
    /\ Len(io_log) < MaxLog
    /\ \E worker \in 1..MaxWorkers :
        \E r \in {load_all_skims(los.skim_info, 1, workers[worker], DataBuffers,
                                 World(NoneVal, cache_file, io_log), omx_files,
                                 settings.read_skim_cache, settings.write_skim_cache)} :
           /\ workers' = [workers EXCEPT ![worker] = r.skim_dicts]
           /\ cache_file' = r.cache
           /\ io_log' = r.log
           /\ err' = r.err
           /\ pc' = IF r.err = "none" THEN pc ELSE "failed"
           /\ result' = CallOf("load_all_skims", worker)
    /\ UNCHANGED <<omx_files, skim_time_periods, settings, skim_info, skim_buffer,
                   other_buffer, skim_dict, los, table_files, pipeline>>

----
\* The catalog: any matrix names and period labels, one shape, no mappings

Init ==
    /\ omx_files \in CatalogFiles
    /\ skim_time_periods \in TimePeriodSettings
    /\ settings = DefaultSettings
    /\ cache_file = NoneVal
    /\ InitRest
    /\ table_files = NoTables

Next == LoadSkimInfo

Spec == Init /\ [][Next]_vars

----
\* Shapes and mappings: few matrix names, two shapes, any mappings whose
\* length is one of the dimensions of the file's matrices

MappingPool ==
    {[name |-> "zone_number", entries |-> <<1>>],
     [name |-> "taz", entries |-> <<2>>],
     [name |-> "zone_number", entries |-> <<1, 2>>]}

ShapeFiles ==
    FileLists({f \in [shape : {<<1, 1>>, <<2, 1>>},
                      matrices : {<<D>>, <<T__A>>},
                      mappings : SeqsUpTo(MappingPool, MaxMappings)] :
                 \A i \in 1..Len(f.mappings) :
                    Len(f.mappings[i].entries) \in {f.shape[1], f.shape[2]}})

InitShapes ==
    /\ omx_files \in ShapeFiles
    /\ skim_time_periods = NoneVal
    /\ settings = DefaultSettings
    /\ cache_file = NoneVal
    /\ InitRest
    /\ table_files = NoTables

NextShapes == LoadSkimInfo \/ CreateSkimDict

SpecShapes == InitShapes /\ [][NextShapes]_vars

----
\* Loading and caching: catalogs of one to three skims over 1 x 2 matrices,
\* any pair of cache flags, and a cache file left by an earlier run that is
\* missing or holds any content of up to MaxCacheLen elements

LoadFiles ==
    FileLists({OmxFile(<<1, 2>>, ms, << >>) : ms \in {<<D>>, <<T__A, T__P>>}})

CacheFiles ==
    {NoneVal} \cup {CacheFile(c) : c \in SeqsUpTo({0, 1}, MaxCacheLen)}

InitCache ==
    /\ omx_files \in LoadFiles
    /\ skim_time_periods \in {NoneVal, [kind |-> "dict", labels |-> <<<<"A">>>>]}
    /\ settings \in {[DefaultSettings EXCEPT !.read_skim_cache = r, !.write_skim_cache = w] :
                        r, w \in BOOLEAN}
    /\ cache_file \in CacheFiles
    /\ InitRest
    /\ table_files = NoTables

NextCache ==
    \/ LoadSkimInfo
    \/ AllocateSharedSkimBuffers
    \/ LoadSkims
    \/ WriteSkimCache
    \/ ReadSkimCache

SpecCache == InitCache /\ [][NextCache]_vars

----
\* The settings: network_los missing, or any zone_system value (also none),
\* any 'skims' entry and any 'tables' entry

ZoneSystemValues == {NoneVal} \cup {PyInt(n) : n \in 0..MaxZoneSystem}

LosSettings ==
    {NoneVal} \cup
    [kind : {"dict"},
     zone_system : ZoneSystemValues,
     skims : {NoneVal} \cup {PyList(t) : t \in {<< >>, <<"taz">>, <<"maz">>, <<"taz", "maz">>}},
     tables : SUBSET REQUIRED_TWO_ZONE_TABLES]

InitLos ==
    /\ omx_files \in LoadFiles
    /\ skim_time_periods = NoneVal
    /\ settings \in {[DefaultSettings EXCEPT !.network_los = n] : n \in LosSettings}
    /\ cache_file = NoneVal
    /\ InitRest
    /\ table_files = NoTables

NextLos == ReadLosSettings

SpecLos == InitLos /\ [][NextLos]_vars

----
\* The zone-pair tables: a one or two zone system, a maz_to_taz file and up
\* to MaxTableFiles maz_to_maz files of up to MaxRows rows each, among them rows
\* of a zone that maz_to_taz does not list and rows that repeat a zone pair

MazToTazPool == {<<0, 1>>, <<0, 1, 2>>}

\* the value of the attribute column in the row of a zone pair
MazValue(k, omaz, dmaz) == 100 * k + 10 * omaz + dmaz

TableFile(k, pairs) ==
    [r \in 1..Len(pairs) |-> CsvRow(pairs[r][1], pairs[r][2],
                                    MazValue(k, pairs[r][1], pairs[r][2]))]

TableFileLists ==
    {[k \in 1..Len(ps) |-> TableFile(k, ps[k])] :
        ps \in SeqsUpTo(SeqsUpTo(MazPairs, MaxRows), MaxTableFiles)}

InitTables ==
    /\ omx_files \in {fs \in FileLists({OmxFile(<<1, 2>>, <<D>>, << >>)}) : Len(fs) = 1}
    /\ skim_time_periods = NoneVal
    /\ settings \in {[DefaultSettings EXCEPT !.network_los =
                        [kind |-> "dict", zone_system |-> PyInt(z),
                         skims |-> PyList(<<"taz">>),
                         tables |-> REQUIRED_TWO_ZONE_TABLES]] :
                        z \in {ONE_ZONE, TWO_ZONE}}
    /\ cache_file = NoneVal
    /\ InitRest
    /\ table_files \in [maz_to_taz : MazToTazPool, maz_to_maz : TableFileLists]

NextTables == ReadLosSettings \/ LoadAllTables \/ GetMazpairs

SpecTables == InitTables /\ [][NextTables]_vars

----
\* The pipeline: any sequence of calls of the pipeline module, by one process
\* after the other on the same checkpoint store

InitPipeline ==
    /\ omx_files = << >>
    /\ skim_time_periods = NoneVal
    /\ settings = DefaultSettings
    /\ cache_file = NoneVal
    /\ InitRest
    /\ table_files = NoTables

NextPipeline ==
    \/ SetRnGeneratorBaseSeed
    \/ GetRnGenerator
    \/ OpenPipeline
    \/ RunModel
    \/ GetTable
    \/ ClosePipeline
    \/ StartProcess

SpecPipeline == InitPipeline /\ [][NextPipeline]_vars

----
\* Reading the source files: catalogs of one to four skims over 1 x 2
\* matrices, among them a scalar matrix next to the split matrix of the same
\* base name and label, loaded into the shared buffer

ReadFiles ==
    FileLists({OmxFile(<<1, 2>>, ms, << >>) :
                 ms \in {<<D>>, <<D__D>>, <<D, D__D>>, <<T__A, T__P>>}})

InitRead ==
    /\ omx_files \in ReadFiles
    /\ skim_time_periods \in {NoneVal, [kind |-> "dict", labels |-> <<<<"A">>>>]}
    /\ settings = DefaultSettings
    /\ cache_file = NoneVal
    /\ InitRest
    /\ table_files = NoTables

NextRead == LoadSkimInfo \/ AllocateSharedSkimBuffers \/ LoadSkims

SpecRead == InitRead /\ [][NextRead]_vars

----
\* Shared buffers: one or two tags over catalogs of up to three skims, a
\* parent that allocates, loads and injects the buffers, and MaxWorkers workers
\* that call load_all_skims at any time

InitShared ==
    /\ omx_files \in LoadFiles
    /\ skim_time_periods = NoneVal
    /\ settings \in {[DefaultSettings EXCEPT !.network_los =
                        [kind |-> "dict", zone_system |-> PyInt(ONE_ZONE),
                         skims |-> PyList(tags), tables |-> {}]] :
                        tags \in {<<"taz">>, <<"taz", "maz">>}}
    /\ cache_file = NoneVal
    /\ InitRest
    /\ table_files = NoTables

NextShared ==
    \/ ReadLosSettings
    \/ AllocateBuffersOfTags
    \/ LoadSharedData
    \/ AddDataBuffersInjectable
    \/ LoadAllSkims

SpecShared == InitShared /\ [][NextShared]_vars

----
\* Properties of the catalog

Catalogued == pc = "catalogued"

AllNames == UNION {SeqToSet(omx_files[i].matrices) : i \in 1..Len(omx_files)}

FilesListing(name) == {i \in 1..Len(omx_files) : name \in SeqToSet(omx_files[i].matrices)}

Offsets == DictValues(skim_info.block_offsets)

\* every matrix name in the order load_skim_info first sees it
RECURSIVE FirstSeen(_)
FirstSeen(i) ==
    IF i = 0 THEN << >> ELSE FirstSeen(i - 1) \o omx_files[i].matrices

HasSeparator(name) == \E i \in 1..(Len(name) - 1) : name[i] = "_" /\ name[i + 1] = "_"

\* name = base ++ "__" ++ period, base without a separator
IsSplit(name, base, period) ==
    /\ name = base \o <<"_", "_">> \o period
    /\ ~HasSeparator(base \o <<"_">>)

BaseOf(name) ==
    IF HasSeparator(name)
    THEN CHOOSE b \in {SubSeq(name, 1, n) : n \in 0..Len(name)} :
            \E q \in {SubSeq(name, n, Len(name)) : n \in 1..(Len(name) + 1)} : IsSplit(name, b, q)
    ELSE name

LabelsConfigured == (~IsNone(skim_time_periods)) /\ skim_time_periods.labels # << >>

LabelSet == IF IsNone(skim_time_periods) THEN {} ELSE SeqToSet(skim_time_periods.labels)

\* the matrix is kept by the time-period filter
IsRetained(name) ==
    \/ ~HasSeparator(name)
    \/ ~LabelsConfigured
    \/ \E b \in {SubSeq(name, 1, n) : n \in 0..Len(name)}, q \in LabelSet : IsSplit(name, b, q)

RetainedFirstSeen == SelectSeq(FirstSeen(Len(omx_files)), IsRetained)

\* C1: the values of block_offsets are pairwise distinct and are exactly the
\* set 0..num_skims-1, for every set of files load_skim_info accepts.
C1_OffsetsDense ==
    Catalogued =>
        /\ \A i, j \in 1..Len(Offsets) : i # j => Offsets[i] # Offsets[j]
        /\ SeqToSet(Offsets) = 0..(skim_info.num_skims - 1)

\* the position a key gets when bases take their blocks in first-seen order
\* and the keys of a base are numbered in first-seen order inside the block
ExpectedOffset(k) ==
    LET names == RetainedFirstSeen
        base == BaseOf(names[k])
        firstOfBase == CHOOSE i \in 1..Len(names) :
                          /\ BaseOf(names[i]) = base
                          /\ \A j \in 1..(i - 1) : BaseOf(names[j]) # base
        start == Cardinality({j \in 1..Len(names) :
                    \E i \in 1..(firstOfBase - 1) :
                        /\ BaseOf(names[i]) = BaseOf(names[j])
                        /\ BaseOf(names[j]) # base})
        within == Cardinality({j \in 1..(k - 1) : BaseOf(names[j]) = base})
    IN  start + within

ExampleFiles ==
    \/ /\ Len(omx_files) = 2
       /\ omx_files[1].matrices = <<D>>
       /\ omx_files[2].matrices = <<T__A, T__P>>
    \/ /\ Len(omx_files) = 2
       /\ omx_files[1].matrices = <<D, T__A>>
       /\ omx_files[2].matrices = <<T__P>>

\* C2: the keys of one base name get one contiguous range of offsets: the
\* bases start at the cumulative sum of the block sizes in first-seen order
\* and inside a block the periods are numbered in first-seen order; DIST,
\* TIME__AM, TIME__PM with periods {AM, PM} give offsets 0, 1, 2 and
\* num_skims 3.
C2_BlockLayout ==
    Catalogued =>
        /\ Len(skim_info.block_offsets) = Len(RetainedFirstSeen)
        /\ \A k \in 1..Len(skim_info.block_offsets) :
              /\ skim_info.omx_keys[k].value = RetainedFirstSeen[k]
              /\ skim_info.block_offsets[k].value = ExpectedOffset(k)
        /\ (ExampleFiles /\ LabelSet = {<<"A">>, <<"P">>}) =>
              /\ skim_info.num_skims = 3
              /\ skim_info.block_offsets =
                    << [key |-> ScalarKey(<<"D">>), value |-> 0],
                       [key |-> TupleKey(<<"T">>, <<"A">>), value |-> 1],
                       [key |-> TupleKey(<<"T">>, <<"P">>), value |-> 2] >>

\* C3: load_skim_info fails whenever two source files list the same matrix
\* name, retained or not; when no name is repeated, omx_manifest maps every
\* matrix name to exactly one file, the one that lists it.
C3_DuplicateFatal ==
    (pc # "start") =>
        /\ (\E n \in AllNames : Cardinality(FilesListing(n)) > 1) => pc = "failed"
        /\ Catalogued =>
              /\ SeqToSet(DictKeys(skim_info.omx_manifest)) = AllNames
              /\ Len(skim_info.omx_manifest) = Cardinality(AllNames)
              /\ \A n \in AllNames : FilesListing(n) = {DictGet(skim_info.omx_manifest, n)}

\* a repeated matrix that the period filter would drop has made the call fail
C3_Witness ==
    /\ pc = "failed"
    /\ \E n \in AllNames : Cardinality(FilesListing(n)) > 1 /\ ~IsRetained(n)

ExpectedKeys ==
    {ScalarKey(n) : n \in {m \in AllNames : ~HasSeparator(m)}}
    \cup UNION {{TupleKey(BaseOf(n), q) :
                    q \in {r \in {SubSeq(n, i, Len(n)) : i \in 1..(Len(n) + 1)} :
                              /\ IsSplit(n, BaseOf(n), r)
                              /\ (LabelsConfigured => r \in LabelSet)}} :
                n \in {m \in AllNames : HasSeparator(m)}}

\* C4: the keys of the catalog are exactly every matrix without a '__'
\* separator, as a scalar key, plus every matrix base__period whose period is
\* in the configured labels, as the key (base, period); with no labels
\* configured (none, or an empty list) every matrix is retained.
C4_RetainedKeys ==
    Catalogued =>
        /\ SeqToSet(DictKeys(skim_info.omx_keys)) = ExpectedKeys
        /\ SeqToSet(DictKeys(skim_info.block_offsets)) = ExpectedKeys
        /\ skim_info.num_skims = Cardinality(ExpectedKeys)

\* labels are configured, one composite matrix was dropped, another kept, and
\* a matrix without separator was kept
C4_Witness ==
    /\ Catalogued
    /\ LabelsConfigured
    /\ \E n \in AllNames : ~IsRetained(n)
    /\ \E n \in AllNames : HasSeparator(n) /\ IsRetained(n)
    /\ \E n \in AllNames : ~HasSeparator(n) /\ ScalarKey(n) \in SeqToSet(DictKeys(skim_info.omx_keys))

----
\* Properties of the shape and mapping checks

\* load_skim_info has raised
LoadFailed == pc = "failed" /\ IsNone(skim_info)

ShapesDiffer == \E i, j \in 1..Len(omx_files) : omx_files[i].shape # omx_files[j].shape

NamesRepeat == \E n \in AllNames : Cardinality(FilesListing(n)) > 1

\* C5: load_skim_info fails whenever two source files report different
\* shapes; when it succeeds omx_shape is the shape of every contributing file.
C5_ShapeFatal ==
    (pc # "start") =>
        /\ ShapesDiffer => LoadFailed
        /\ (~IsNone(skim_info)) =>
              \A i \in 1..Len(omx_files) : skim_info.omx_shape.dims = omx_files[i].shape

\* the second file has another shape and the call has failed on it
C5_Witness ==
    /\ LoadFailed
    /\ err = "AssertionError: omx_shape"
    /\ Len(omx_files) = 2
    /\ omx_files[1].shape # omx_files[2].shape

\* the values of all mapping tables, in the order the files list them
RECURSIVE AllMappings(_)
AllMappings(i) ==
    IF i = 0 THEN << >>
    ELSE AllMappings(i - 1) \o [k \in 1..Len(omx_files[i].mappings) |-> omx_files[i].mappings[k].entries]

Mappings == AllMappings(Len(omx_files))

MappingsDiffer == \E k \in 1..Len(Mappings) : Mappings[k] # Mappings[1]

\* the int bias is used exactly when the catalog has no offset_map
BiasWhenNoMap ==
    (~IsNone(skim_dict)) =>
        skim_dict.offset_mapper =
            IF Mappings = << >>
            THEN [kind |-> "int", offset_list |-> << >>, offset_int |-> 0 - 1]
            ELSE [kind |-> "list", offset_list |-> Mappings[1], offset_int |-> 0]

\* C6 as stated: load_skim_info fails as soon as a mapping differs in value
\* from the first one seen and succeeds with offset_map equal to the first
\* mapping when all mappings are equal; with no mapping offset_map is None
\* and create_skim_dict uses the constant bias -1.
C6_AsStated ==
    (pc # "start") =>
        /\ MappingsDiffer => LoadFailed
        /\ (Mappings # << >> /\ ~MappingsDiffer /\ ~ShapesDiffer /\ ~NamesRepeat) =>
              /\ ~IsNone(skim_info)
              /\ skim_info.offset_map = PyList(Mappings[1])
        /\ (Mappings = << >> /\ ~IsNone(skim_info)) => IsNone(skim_info.offset_map)
        /\ BiasWhenNoMap

\* the first mapping seen has one entry per matrix row
FirstMappingCoversRows == Len(Mappings[1]) = omx_files[1].shape[1]

\* C6 amended: load_skim_info fails as soon as a mapping differs in value
\* from the first one seen, fails when the first mapping seen does not have
\* one entry per matrix row, and otherwise (all mappings equal) succeeds with
\* offset_map equal to the first mapping; with no mapping offset_map is None
\* and create_skim_dict uses the constant bias -1.
C6_MappingConflict ==
    (pc # "start") =>
        /\ MappingsDiffer => LoadFailed
        /\ (MappingsDiffer /\ ~ShapesDiffer /\ ~NamesRepeat /\ FirstMappingCoversRows) =>
              err = "RuntimeError: Multiple different mappings"
        /\ (Mappings # << >> /\ ~ShapesDiffer /\ ~NamesRepeat /\ ~FirstMappingCoversRows) =>
              /\ LoadFailed
              /\ err = "AssertionError: len(offset_map)"
        /\ (Mappings # << >> /\ ~MappingsDiffer /\ ~ShapesDiffer /\ ~NamesRepeat
                /\ FirstMappingCoversRows) =>
              /\ ~IsNone(skim_info)
              /\ skim_info.offset_map = PyList(Mappings[1])
        /\ (Mappings = << >> /\ ~IsNone(skim_info)) => IsNone(skim_info.offset_map)
        /\ BiasWhenNoMap

\* two files carry the same mapping, the catalog uses it and the skim dict
\* was created with the list mapper
C6_Witness ==
    /\ pc = "ready"
    /\ Len(omx_files) = 2
    /\ omx_files[1].mappings # << >>
    /\ omx_files[2].mappings # << >>
    /\ skim_info.offset_map = PyList(Mappings[1])
    /\ skim_dict.offset_mapper.kind = "list"

----
\* Properties of the loader and the cache

ElementCount == multiply_large_numbers(SkimsShape(skim_info))

\* the file accesses made by the step
NewLog == SubSeq(io_log', Len(io_log) + 1, Len(io_log'))

LogOps(log) == {log[n].op : n \in 1..Len(log)}

\* every retained key has its slice equal to its matrix in the file the
\* manifest names for it
HoldsSource(buffer) ==
    \A k \in 1..Len(skim_info.omx_keys) :
        \A i \in 0..(skim_info.omx_shape.dims[1] - 1), j \in 0..(skim_info.omx_shape.dims[2] - 1) :
            buffer.items[FlatIndex(SkimsShape(skim_info), i, j, skim_info.block_offsets[k].value)]
                = OmxData(omx_files[DictGet(skim_info.omx_manifest, skim_info.omx_keys[k].value)],
                          skim_info.omx_keys[k].value, i, j)

\* C7: load_skims with read_skim_cache and write_skim_cache both true fails
\* before anything else happens (buffer unchanged, no source matrix read, no
\* cache file read or written); otherwise the buffer is filled from the cache
\* iff read_skim_cache is true and else from the source files, and the cache
\* is written iff write_skim_cache is true, after the buffer has been filled.
C7_LoadSkimsModes ==
    [][LoadSkims =>
        IF settings.read_skim_cache /\ settings.write_skim_cache
        THEN /\ pc' = "failed"
             /\ err' = "AssertionError: read_skim_cache and write_skim_cache are both True"
             /\ skim_buffer' = skim_buffer
             /\ cache_file' = cache_file
             /\ io_log' = io_log
        ELSE /\ settings.read_skim_cache =>
                  /\ "omx_read" \notin LogOps(NewLog)
                  /\ (pc' # "failed") =>
                        /\ NewLog = <<[op |-> "cache_read"]>>
                        /\ skim_buffer'.items = SubSeq(cache_file.items, 1, ElementCount)
                  /\ (pc' = "failed") => skim_buffer' = skim_buffer
             /\ (~settings.read_skim_cache) =>
                  /\ pc' # "failed"
                  /\ LogOps(NewLog) \subseteq {"omx_read", "cache_write"}
                  /\ Cardinality({n \in 1..Len(NewLog) : NewLog[n].op = "omx_read"})
                        = skim_info.num_skims
                  /\ HoldsSource(skim_buffer')
             /\ settings.write_skim_cache =>
                  /\ NewLog # << >>
                  /\ NewLog[Len(NewLog)].op = "cache_write"
                  /\ Cardinality({n \in 1..Len(NewLog) : NewLog[n].op = "cache_write"}) = 1
                  /\ cache_file' = CacheFile(skim_buffer'.items)
             /\ (~settings.write_skim_cache) =>
                  /\ "cache_write" \notin LogOps(NewLog)
                  /\ cache_file' = cache_file]_vars

\* load_skims was called with both flags set and has failed on its first line
C7_Witness ==
    /\ pc = "failed"
    /\ err = "AssertionError: read_skim_cache and write_skim_cache are both True"
    /\ settings.read_skim_cache /\ settings.write_skim_cache
    /\ ~IsNone(skim_buffer)
    /\ io_log = << >>

\* C8: write_skim_cache(skim_info, skim_data) followed by
\* read_skim_cache(skim_info, other) on a buffer of the same shape and tag
\* leaves other element for element equal to skim_data, and write_skim_cache
\* leaves skim_data unchanged.
C8_CacheRoundTrip ==
    [][/\ WriteSkimCache => (skim_buffer' = skim_buffer /\ pc' # "failed")
       /\ (ReadSkimCache /\ io_log # << >> /\ io_log[Len(io_log)].op = "cache_write") =>
            /\ pc' # "failed"
            /\ \A n \in 1..ElementCount : other_buffer'.items[n] = skim_buffer.items[n]
            /\ Len(other_buffer'.items) = Len(skim_buffer.items)]_vars

\* a buffer whose elements are not all equal was written to the cache and
\* read back into the second buffer
C8_Witness ==
    /\ pc = "allocated"
    /\ ~settings.read_skim_cache
    /\ Len(io_log) >= 2
    /\ io_log[Len(io_log) - 1].op = "cache_write"
    /\ io_log[Len(io_log)].op = "cache_read"
    /\ other_buffer = skim_buffer
    /\ \E n, m \in 1..Len(skim_buffer.items) : skim_buffer.items[n] # skim_buffer.items[m]
    /\ skim_info.num_skims > 1

\* C9: read_skim_cache fails, and leaves the buffer unchanged, whenever the
\* cache file is missing or its stored size does not match rows x cols x
\* num_skims of the current catalog, smaller or larger; it never fills the
\* buffer from a mismatching artifact.
C9_CacheMismatchFatal ==
    [][(ReadSkimCache /\ (IsNone(cache_file) \/ Len(cache_file.items) # ElementCount)) =>
            /\ pc' = "failed"
            /\ other_buffer' = other_buffer]_vars

----
\* Properties of the settings

\* C10: read_los_settings accepts each of the zone_system values 1
\* (ONE_ZONE), 2 (TWO_ZONE) and 3 (THREE_ZONE) and fails for every other
\* value, including a missing zone_system.
C10_ZoneSystemAccepted ==
    (pc # "start" /\ ~IsNone(settings.network_los)) =>
        LET z == settings.network_los.zone_system
            named == z.kind = "int" /\ z.value \in {ONE_ZONE, TWO_ZONE, THREE_ZONE}
        IN  /\ named => err # "AssertionError: unrecognized zone_system"
            /\ (~named) => (pc = "failed" /\ err = "AssertionError: unrecognized zone_system")

----
\* Properties of the zone-pair tables

TablesLoaded == pc = "tables_loaded" /\ NeedsTables(los.zone_system)

\* the rows of the maz_to_maz file at position f
SourceRows(f) == SeqToSet(table_files.maz_to_maz[f])

SourceFiles == 1..Len(table_files.maz_to_maz)

CardinalityFromMazToTaz ==
    los.maz_to_maz_cardinality = PyInt(MaxOf(table_files.maz_to_taz) + 1)

\* every source row is stored at OMAZ * cardinality + DMAZ
StoredAtSyntheticIndex ==
    \A f \in SourceFiles : \A row \in SourceRows(f) :
        DfCell(los.maz_to_maz_df.rows,
               row.OMAZ * los.maz_to_maz_cardinality.value + row.DMAZ,
               AttributeOf(f)) = row.value

\* MAZ values [0, 1, 2] put the row of OMAZ 1 and DMAZ 2 at index 5
ExampleIndex ==
    table_files.maz_to_taz = <<0, 1, 2>> =>
        /\ los.maz_to_maz_cardinality = PyInt(3)
        /\ \A f \in SourceFiles : \A row \in SourceRows(f) :
               (row.OMAZ = 1 /\ row.DMAZ = 2) =>
                   DfCell(los.maz_to_maz_df.rows, 5, AttributeOf(f)) = row.value

\* a returned array holds, at each position, the attribute of the source row
\* of the zone pair asked for at that position
LookupInInputOrder ==
    result.kind = "array" =>
        /\ Len(result.values) = Len(result.omaz)
        /\ \A k \in 1..Len(result.omaz) : \A row \in SourceRows(result.attribute) :
               (row.OMAZ = result.omaz[k] /\ row.DMAZ = result.dmaz[k]) =>
                   result.values[k] = row.value

\* the rows of files f and g that are of distinct zone pairs have distinct
\* synthetic indexes
DistinctIndexes(f, g) ==
    \A a \in SourceRows(f), b \in SourceRows(g) :
        <<a.OMAZ, a.DMAZ>> # <<b.OMAZ, b.DMAZ>> =>
            SyntheticIndex(a.OMAZ, a.DMAZ, los.maz_to_maz_cardinality.value)
                # SyntheticIndex(b.OMAZ, b.DMAZ, los.maz_to_maz_cardinality.value)

\* C11 as stated: after load_all_tables on a two zone system the cardinality
\* is max(MAZ) + 1, get_mazpairs returns the attribute of the source row of
\* each zone pair in input order, and no two distinct zone pairs of the
\* source, of whichever files, share a synthetic index
C11_AsStated ==
    TablesLoaded =>
        /\ CardinalityFromMazToTaz
        /\ StoredAtSyntheticIndex
        /\ ExampleIndex
        /\ LookupInInputOrder
        /\ \A f, g \in SourceFiles : DistinctIndexes(f, g)

\* C11 amended: the same, with the synthetic indexes distinct among the zone
\* pairs of each one source file
C11_ZonePairLookup ==
    TablesLoaded =>
        /\ CardinalityFromMazToTaz
        /\ StoredAtSyntheticIndex
        /\ ExampleIndex
        /\ LookupInInputOrder
        /\ \A f \in SourceFiles : DistinctIndexes(f, f)

\* two zone pairs of a file were looked up in the reverse of the file's order
C11_Witness ==
    /\ TablesLoaded
    /\ table_files.maz_to_taz = <<0, 1, 2>>
    /\ Len(table_files.maz_to_maz) = 1
    /\ table_files.maz_to_maz[1] = TableFile(1, <<<<0, 2>>, <<1, 2>>>>)
    /\ result.kind = "array"
    /\ result.omaz = <<1, 0>>
    /\ result.dmaz = <<2, 2>>
    /\ result.values = <<MazValue(1, 1, 2), MazValue(1, 0, 2)>>

----
\* Properties of the pipeline

Called(op) == result'.kind = "call" /\ result'.op = op

WasCalled(op) == result.kind = "call" /\ result.op = op

MoreThanOnce == "RuntimeError: cannot run model more than once"

NoRepeat(names) == \A i, j \in 1..Len(names) : names[i] = names[j] => i = j

\* run_model(name) with name in the history raises and changes nothing
RepeatFails ==
    (Called("run_model") /\ InCheckpoints(result'.name, pipeline.checkpoints)) =>
        /\ err' = MoreThanOnce
        /\ pipeline'.checkpoints = pipeline.checkpoints
        /\ pipeline'.store = pipeline.store
        /\ pipeline'.tables = pipeline.tables

\* a run_model(name) that returns has appended one checkpoint, named name
SuccessAppendsOne ==
    (Called("run_model") /\ err' = "none") =>
        /\ Len(pipeline'.checkpoints) = Len(pipeline.checkpoints) + 1
        /\ SubSeq(pipeline'.checkpoints, 1, Len(pipeline.checkpoints)) = pipeline.checkpoints
        /\ pipeline'.checkpoints[Len(pipeline'.checkpoints)].checkpoint_name = result'.name

\* C12: run_model(name) fails with 'more than once' when name is in the
\* checkpoint history, the step named by resume_after included, and then
\* leaves the history and the tables as they were; a run_model that succeeds
\* appends exactly one checkpoint; no step name is twice in the history
C12_RunModelOnce ==
    /\ [][RepeatFails /\ SuccessAppendsOne]_vars
    /\ [](NoRepeat(CheckpointNames(pipeline.checkpoints))
          /\ NoRepeat(CheckpointNames(pipeline.store)))

\* the step named by resume_after was run again, and that failed
C12_Witness ==
    /\ WasCalled("run_model")
    /\ err = MoreThanOnce
    /\ ~IsNone(pipeline.resume_after)
    /\ result.name = pipeline.resume_after.value
    /\ Len(pipeline.checkpoints) = 2

Resumed == pipeline.is_open /\ ~IsNone(pipeline.resume_after)

NameSet(checkpoints) == SeqToSet(CheckpointNames(checkpoints))

\* open_pipeline(resume_after=X) that returns leaves as history the stored
\* checkpoints up to and including the one named X
ResumeTruncates ==
    (Called("open_pipeline") /\ err' = "none" /\ ~IsNone(result'.checkpoint_name)) =>
        \E k \in 1..Len(pipeline.store) :
            /\ pipeline.store[k].checkpoint_name = result'.checkpoint_name.value
            /\ pipeline'.checkpoints = SubSeq(pipeline.store, 1, k)

\* the steps that followed X in the store are not in the history after the
\* resume until they are run again, and run_model of each of them succeeds
LaterStepsRunnable ==
    Resumed =>
        \A s \in NameSet(pipeline.previous) \ NameSet(pipeline.checkpoints) :
            run_model(pipeline, s).raised = "none"

\* while only steps of the earlier history are run, the number of
\* checkpoints is at most what it was before the resume, and is that number
\* when all of them were run again
CountComesBack ==
    (Resumed /\ NameSet(pipeline.checkpoints) \subseteq NameSet(pipeline.previous)) =>
        /\ Len(pipeline.checkpoints) <= Len(pipeline.previous)
        /\ NameSet(pipeline.checkpoints) = NameSet(pipeline.previous)
              => Len(pipeline.checkpoints) = Len(pipeline.previous)

\* C13: after open_pipeline(resume_after=X) the history is the earlier
\* history up to and including X; the steps after X can be run again, and
\* running them again brings the number of checkpoints back to what it was
\* before the resume, never above
C13_ResumeTruncatesHistory ==
    /\ [][ResumeTruncates]_vars
    /\ [](LaterStepsRunnable /\ CountComesBack)

\* a store of three checkpoints was resumed after its first, and the two
\* later steps were run again in the other order
C13_Witness ==
    /\ Resumed
    /\ Len(pipeline.previous) = 3
    /\ pipeline.resume_after.value = pipeline.previous[1].checkpoint_name
    /\ Len(pipeline.checkpoints) = 3
    /\ pipeline.checkpoints[2].checkpoint_name = pipeline.previous[3].checkpoint_name

\* seeds and step names of the first k checkpoints agree
SameRun(a, b, k) ==
    /\ k <= Len(a)
    /\ k <= Len(b)
    /\ \A j \in 1..k : /\ a[j].checkpoint_name = b[j].checkpoint_name
                       /\ a[j].base_seed = b[j].base_seed

\* right after the resume the tables are those of checkpoint X, and
\* get_table returns them
ResumeRestores ==
    (Called("open_pipeline") /\ err' = "none" /\ ~IsNone(result'.checkpoint_name)) =>
        \E k \in 1..Len(pipeline.store) :
            /\ pipeline.store[k].checkpoint_name = result'.checkpoint_name.value
            /\ pipeline'.tables = pipeline.store[k].tables
            /\ \A t \in TableNames :
                  DictHas(pipeline.store[k].tables, t) =>
                      get_table(pipeline', t, NoneVal).value =
                          [kind |-> "table", value |-> DictGet(pipeline.store[k].tables, t)]

\* the checkpoints of the steps run again with the same seed hold the tables
\* that the earlier run checkpointed
RerunReproduces ==
    Resumed =>
        \A k \in 1..Len(pipeline.checkpoints) :
            SameRun(pipeline.checkpoints, pipeline.previous, k) =>
                pipeline.checkpoints[k].tables = pipeline.previous[k].tables

\* C14: with the same base seed, running [A, B, C], closing, reopening with
\* resume_after=A and running [B, C] again gives the tables of the first
\* run: right after the resume get_table returns the tables as of A, and
\* after the re-run every table is what it was at the end of the first run
C14_ResumeReproducesTables ==
    /\ [][ResumeRestores]_vars
    /\ [](RerunReproduces)

\* [A, B, C] was run with seed 1, resumed after A, and B and C were run again
C14_Witness ==
    /\ Resumed
    /\ pipeline.resume_after = PyStr("A")
    /\ CheckpointNames(pipeline.previous) = <<"A", "B", "C">>
    /\ CheckpointNames(pipeline.checkpoints) = <<"A", "B", "C">>
    /\ pipeline.base_seed = 1
    /\ SameRun(pipeline.checkpoints, pipeline.previous, 3)
    /\ pipeline.tables = pipeline.previous[3].tables

TooLate == "RuntimeError: call set_rn_generator_base_seed before the first step"

SetterFails ==
    /\ err' = TooLate
    /\ pipeline'.base_seed = pipeline.base_seed

SetterSucceeds ==
    /\ err' = "none"
    /\ pipeline'.base_seed = result'.seed

\* get_rn_generator returns the generator, whatever the state of the pipeline
GeneratorReturned ==
    Called("get_rn_generator") =>
        /\ err' = "none"
        /\ result'.value = [kind |-> "rng", base_seed |-> pipeline.base_seed]

NeverCheckpointed == "RuntimeError: table never checkpointed"

NotInCheckpoints == "RuntimeError: checkpoint not in checkpoints"

\* some checkpoint of the history holds the table
HeldBySome(table_name) ==
    \E k \in 1..Len(pipeline.checkpoints) :
        DictHas(pipeline.checkpoints[k].tables, table_name)

\* the snapshot get_table is asked for: of the latest checkpoint, or of c
SnapshotAsked(checkpoint_name) ==
    IF IsNone(checkpoint_name)
    THEN pipeline.checkpoints[Len(pipeline.checkpoints)].tables
    ELSE pipeline.checkpoints[CHOOSE k \in 1..Len(pipeline.checkpoints) :
            pipeline.checkpoints[k].checkpoint_name = checkpoint_name.value].tables

UnknownCheckpoint(checkpoint_name) ==
    ~IsNone(checkpoint_name) /\ ~InCheckpoints(checkpoint_name.value, pipeline.checkpoints)

TableReturned ==
    /\ err' = "none"
    /\ result'.value = [kind |-> "table",
                        value |-> DictGet(SnapshotAsked(result'.checkpoint_name),
                                          result'.name)]

FailureChangesNothing ==
    (Called("get_table") /\ err' # "none") => pipeline' = pipeline

\* C17 as stated: on an open pipeline get_table fails 'never checkpointed'
\* when no checkpoint of the history holds the table, fails 'not in
\* checkpoints' when the named checkpoint is not in the history, and
\* otherwise returns the table as of the latest (or the named) checkpoint;
\* a get_table that fails changes nothing
C17_AsStated ==
    [][/\ (Called("get_table") /\ pipeline.is_open) =>
              IF ~HeldBySome(result'.name) \/ UnknownCheckpoint(result'.checkpoint_name)
              THEN /\ err' \in {NeverCheckpointed, NotInCheckpoints}
                   /\ err' = NeverCheckpointed => ~HeldBySome(result'.name)
                   /\ err' = NotInCheckpoints => UnknownCheckpoint(result'.checkpoint_name)
              ELSE TableReturned
       /\ FailureChangesNothing]_vars

\* C17 amended: the same, and get_table also fails 'never checkpointed'
\* when the checkpoint asked for does not hold the table although a later
\* one does
C17_GetTable ==
    [][/\ (Called("get_table") /\ pipeline.is_open) =>
              IF UnknownCheckpoint(result'.checkpoint_name)
              THEN /\ err' \in {NeverCheckpointed, NotInCheckpoints}
                   /\ err' = NeverCheckpointed => ~HeldBySome(result'.name)
              ELSE IF \/ ~HeldBySome(result'.name)
                      \/ ~DictHas(SnapshotAsked(result'.checkpoint_name), result'.name)
              THEN err' = NeverCheckpointed
              ELSE TableReturned
       /\ FailureChangesNothing]_vars

\* get_table returned the households of an earlier checkpoint, which differ
\* from the households of the latest
C17_Witness ==
    /\ WasCalled("get_table")
    /\ err = "none"
    /\ pipeline.is_open
    /\ result.name = "households"
    /\ ~IsNone(result.checkpoint_name)
    /\ result.value.value # DictGet(pipeline.tables, "households")
    /\ result.value.value =
          DictGet(pipeline.checkpoints[1].tables, "households")
    /\ result.checkpoint_name.value = pipeline.checkpoints[1].checkpoint_name

----
\* Properties of reading the source files

\* the step read source matrices
ReadFromOmx == NewLog # << >> /\ LogOps(NewLog) = {"omx_read"}

\* the matrices the step read from the file at position f
LoadedFrom(f) == {n \in 1..Len(NewLog) : NewLog[n].file = f}

\* every retained key was read once, from the file the manifest names
EachKeyReadOnce ==
    /\ Len(NewLog) = skim_info.num_skims
    /\ \A k \in 1..Len(skim_info.omx_keys) :
           \E f \in 1..Len(omx_files) :
               /\ f = DictGet(skim_info.omx_manifest, skim_info.omx_keys[k].value)
               /\ Cardinality({n \in LoadedFrom(f) :
                                 NewLog[n].omx_key = skim_info.omx_keys[k].value}) = 1

\* no two retained keys are written to the same slice
NoSliceOverwritten ==
    \A k1, k2 \in 1..Len(skim_info.omx_keys) :
        k1 # k2 =>
            DictGet(skim_info.block_offsets, skim_info.omx_keys[k1].key)
                # DictGet(skim_info.block_offsets, skim_info.omx_keys[k2].key)

\* C18: after read_skims_from_omx on a catalog of load_skim_info, the slice
\* of every retained key holds the key's source matrix from the file the
\* manifest names; every retained key is copied once (the reads of the files
\* sum to num_skims) and no slice is overwritten by another key
C18_SlicesHoldSource ==
    [][ReadFromOmx =>
          /\ HoldsSource(skim_buffer')
          /\ EachKeyReadOnce
          /\ NoSliceOverwritten]_vars

----
\* Properties of the shared buffers

Tags == SeqToSet(DictKeys(los.skim_info))

\* what a worker reads through the skim dictionary of a tag
WorkerReads(worker, skim_tag) ==
    LET skim_data == DictGet(workers[worker], skim_tag).skim_data
    IN  IF skim_data.kind = "view" THEN DictGet(los.skim_buffers, skim_data.of).items
        ELSE skim_data.items

\* the buffers, once allocated, change only in load_shared_data
OnlyLoadWrites ==
    (los.skim_buffers # << >> /\ los'.skim_buffers # los.skim_buffers) =>
        Called("load_shared_data")

\* with the injectable present load_all_skims binds every tag to the buffer
\* of the tag, reads no file and leaves the buffers as they are
BindsOnly ==
    (Called("load_all_skims") /\ settings.data_buffers) =>
        /\ err' = "none"
        /\ los'.skim_buffers = los.skim_buffers
        /\ io_log' = io_log
        /\ cache_file' = cache_file
        /\ \A skim_tag \in Tags :
               /\ DictHas(workers'[result'.worker], skim_tag)
               /\ DictGet(workers'[result'.worker], skim_tag).skim_data
                      = ViewOfShared(skim_tag)

\* the workers bound to the shared buffers read what the buffers hold
SameContents ==
    \A worker \in 1..MaxWorkers : \A skim_tag \in Tags :
        (DictHas(workers[worker], skim_tag)
            /\ DictGet(workers[worker], skim_tag).skim_data.kind = "view") =>
                WorkerReads(worker, skim_tag) = DictGet(los.skim_buffers, skim_tag).items

\* allocate_shared_skim_buffers fails when buffers exist, and else
\* allocates, for catalogs that have a shape, one buffer of rows * cols *
\* num_skims elements for every tag
AllocatesOnce ==
    Called("allocate_shared_skim_buffers") =>
        IF los.skim_buffers # << >>
        THEN /\ err' = "AssertionError: not self.skim_buffers"
             /\ los'.skim_buffers = los.skim_buffers
        ELSE (\A k \in 1..Len(los.skim_info) : ~IsNone(los.skim_info[k].value.omx_shape)) =>
                /\ err' = "none"
                /\ DictKeys(los'.skim_buffers) = DictKeys(los.skim_info)
                /\ \A k \in 1..Len(los.skim_info) :
                       Len(los'.skim_buffers[k].value.items) =
                           los.skim_info[k].value.omx_shape.dims[1]
                               * los.skim_info[k].value.omx_shape.dims[2]
                               * los.skim_info[k].value.num_skims

\* C19: the shared buffers are written by load_shared_data only; with the
\* 'data_buffers' injectable present load_all_skims binds every tag's skim
\* dictionary to the existing buffer without allocating, reading a file or
\* changing the buffer, so that all workers read the same contents;
\* allocate_shared_skim_buffers allocates one buffer of rows * cols *
\* num_skims elements per tag and fails when called again
C19_SharedBuffersWrittenOnce ==
    /\ [][OnlyLoadWrites /\ BindsOnly /\ AllocatesOnce]_vars
    /\ []SameContents

\* both workers are bound to the loaded buffers of two tags
C19_Witness ==
    /\ WasCalled("load_all_skims")
    /\ settings.data_buffers
    /\ Tags = {"taz", "maz"}
    /\ io_log # << >>
    /\ \A worker \in 1..MaxWorkers : \A skim_tag \in Tags :
           /\ DictHas(workers[worker], skim_tag)
           /\ DictGet(workers[worker], skim_tag).skim_data.kind = "view"
           /\ WorkerReads(worker, skim_tag) # << >>
           /\ \E n \in 1..Len(WorkerReads(worker, skim_tag)) :
                  WorkerReads(worker, skim_tag)[n] # 0

====
